---------------------------- MODULE Spec2Model ----------------------------
(***************************************************************************)
(* A model of gopybara/httpbara: the ActiveTaskTracker, the task-tracker   *)
(* middleware running inside a gin handler chain, core.Run's graceful      *)
(* shutdown, and the composition engine (flatHandlers / applyHandlers).    *)
(***************************************************************************)
EXTENDS Integers, Sequences, FiniteSets, TLC

(***************************************************************************)
(* Bounds of the model.                                                    *)
(***************************************************************************)
\* Number of goroutines that call StartTask / FinishTask on the tracker.
MaxTasks == 2

\* Number of Shutdown calls made, one after the other, on one tracker.
MaxShutdownCalls == 2

Tasks == 1..MaxTasks

(***************************************************************************)
(* State.                                                                  *)
(*   count         ActiveTaskTracker.count (atomic.Int32)                  *)
(*   ctxCancelled  t.ctx.Err() != nil, set by t.cancelFunc()               *)
(*   pc            where each task goroutine stands in StartTask /         *)
(*                 FinishTask; "fin_send" is a goroutine blocked on the    *)
(*                 unbuffered send  t.doneCh <- true                       *)
(*   ncalls        number of Shutdown calls made so far                    *)
(*   spc           where the current (latest) Shutdown call stands         *)
(*   dl            the state of the ctx given to that Shutdown call        *)
(*   how           how that Shutdown call returned                         *)
(*   sawCount      the value count.Load() gave that Shutdown call          *)
(*   signals       number of values that call received from doneCh         *)
(*   admittedLate  history: some count.Add(1) ran after cancelFunc()       *)
(*   zeroed        history: the tasks whose count.Add(-1) in FinishTask    *)
(*                 gave 0                                                  *)
(***************************************************************************)
VARIABLES count, ctxCancelled, pc, ncalls, spc, dl, how, sawCount, signals,
          admittedLate, zeroed

(***************************************************************************)
(* A request passing through a gin chain that holds the task-tracker       *)
(* middleware (request r uses the tracker as task r).                      *)
(*   stage   "none": no request; "mw": inside taskTrackerMiddleware.       *)
(*           Middleware before ctx.Next(); "chain": gin runs the steps     *)
(*           that follow; "fin": the chain is over and the deferred        *)
(*           FinishTask runs; "done": the request is over                  *)
(*   index   gin's Context.index: the position in the chain (0-based)      *)
(*   ran     the steps after the middleware that were executed, in order   *)
(*   resp    what ctx.JSON wrote for the request ("none" when nothing)     *)
(*   panicked  a step of the chain panicked                                *)
(***************************************************************************)
VARIABLES stage, index, ran, resp, panicked

(***************************************************************************)
(* core.Run.                                                               *)
(*   rpc        where Run stands                                           *)
(*   runResult  what Run returned ("none" while it has not)                *)
(*   lpc        the goroutine that runs srv.ListenAndServe and then sends  *)
(*              on errChan                                                 *)
(*   hasTracker c.taskTracker != nil                                       *)
(*   quit       number of signals buffered in the quit channel             *)
(*   sigSent    history: a SIGINT/SIGTERM was delivered                    *)
(*   lfail      history: ListenAndServe failed, "early" when no signal     *)
(*              had been delivered by then, "late" otherwise                *)
(*   srvClosed  srv.Shutdown has been called                               *)
(*   srvErr     what srv.Shutdown returned ("none" while it has not)       *)
(***************************************************************************)
VARIABLES rpc, runResult, lpc, hasTracker, quit, sigSent, srvClosed, srvErr, lfail

(***************************************************************************)
(* New: flatHandlers and applyHandlers.                                    *)
(*   handlers         the []*Handler given to New                          *)
(*   rootMiddlewares  c.rootMiddlewares, set by WithRootMiddlewares        *)
(*   flatRoutes       c.flatRoutes                                         *)
(*   flatGroups       c.flatGroups, a map from group name to Group         *)
(*   flatMiddlewares  c.flatMiddlewares, a map from name to Middleware     *)
(*   ginRoutes        what was handed to c.gin.Handle / c.gin.Any, in      *)
(*                    order: the methods, the path and the handler chain   *)
(*   log              the records given to c.log, in order                 *)
(*   cpc              where New stands; ci is the index of the handler     *)
(*                    (in flatHandlers) or route (in applyHandlers) that   *)
(*                    the running loop treats next                         *)
(***************************************************************************)
VARIABLES handlers, rootMiddlewares, flatRoutes, flatGroups, flatMiddlewares,
          ginRoutes, log, cpc, ci

(***************************************************************************)
(* AsHandler.                                                              *)
(*   hstruct  the handler struct given to AsHandler: its fields, flattened *)
(*            by getAllReflectionFieldsRecursive, each with the kind of    *)
(*            the method of its name that getAllGinHandlers found          *)
(*   apc      where AsHandler stands                                       *)
(*   hnd      the Handler under construction                               *)
(*   aret     what AsHandler returned: the handler (<<>> is nil, <<h>> a   *)
(*            pointer to h) and the error (<<>> is nil, else the chain of  *)
(*            wrapped messages, outermost first)                           *)
(*   parsed   history: the calls of parseRouteTag, each with its tag and   *)
(*            its three results                                            *)
(***************************************************************************)
VARIABLES hstruct, apc, hnd, aret, parsed

(***************************************************************************)
(* One request on a casual route, served by the adapter cb that            *)
(* flatHandlers builds.                                                    *)
(*   casualR  the route and the request: the number of results of its      *)
(*            typed handler (arity) and the format the Accept header       *)
(*            selects (accept)                                             *)
(*   kpc      where cb stands ("panic": it panicked)                       *)
(*   bindErr  what ctx.ShouldBind returned (<<>> is nil or not yet called) *)
(*   called   history: the typed handler was invoked                       *)
(*   respArr  what the typed handler returned (<<>> before the call)       *)
(*   written  what was written to the client (<<>> nothing): the status    *)
(*            code, the format and the body (<<>> is no body)              *)
(*   aborted  ctx.Abort was called                                         *)
(***************************************************************************)
VARIABLES casualR, kpc, bindErr, called, respArr, written, aborted

tvars == <<count, ctxCancelled, pc, ncalls, spc, dl, how, sawCount, signals,
           admittedLate, zeroed>>

mvars == <<stage, index, ran, resp, panicked>>

rvars == <<rpc, runResult, lpc, hasTracker, quit, sigSent, srvClosed, srvErr, lfail>>

avars == <<hstruct, apc, hnd, aret, parsed>>

qvars == <<casualR, kpc, bindErr, called, respArr, written, aborted>>

\* What neither the tracker, a request of the tracker middleware, Run nor New owns.
xvars == <<avars, qvars>>

cvars == <<handlers, rootMiddlewares, flatRoutes, flatGroups, flatMiddlewares,
           ginRoutes, log, cpc, ci>>

\* Everything that is not the tracker's.
others == <<mvars, rvars, cvars, xvars>>

vars == <<tvars, mvars, rvars, cvars, xvars>>

\* t.ctx.Err() != nil
CtxErr == ctxCancelled

\* Tasks whose StartTask returned nil.
Started == {t \in Tasks : pc[t] \in {"running", "fin_err", "fin_load", "fin_send", "done"}}

\* Tasks whose FinishTask has executed count.Add(-1).
Decremented == {t \in Tasks : pc[t] \in {"fin_err", "fin_load", "fin_send", "done"}}

\* Goroutines blocked in  t.doneCh <- true  (doneCh has no buffer).
doneCh == {t \in Tasks : pc[t] = "fin_send"}

\* NewActiveTaskTracker
TrackerInit ==
    /\ count = 0
    /\ ctxCancelled = FALSE
    /\ pc = [t \in Tasks |-> "idle"]
    /\ ncalls = 0
    /\ spc = "idle"
    /\ dl = "unset"
    /\ how = "none"
    /\ sawCount = -1
    /\ signals = 0
    /\ admittedLate = FALSE
    /\ zeroed = {}

(***************************************************************************)
(* StartTask: the check of ctx.Err() and count.Add(1) are two atomic       *)
(* steps of the calling goroutine.                                         *)
(***************************************************************************)
\* StartTask without the ctx.Err() check: every call is admitted.
StartTaskCheckNoErr(t) ==
    /\ pc[t] = "idle"
    /\ pc' = [pc EXCEPT ![t] = "start_add"]
    /\ UNCHANGED <<count, ctxCancelled, ncalls, spc, dl, how, sawCount, signals,
                   admittedLate, zeroed,
                   others>>

StartTaskCheck(t) ==
    /\ pc[t] = "idle"
    /\ pc' = [pc EXCEPT ![t] = IF CtxErr THEN "refused" ELSE "start_add"]
    /\ UNCHANGED <<count, ctxCancelled, ncalls, spc, dl, how, sawCount, signals,
                   admittedLate, zeroed,
                   others>>

StartTaskAdd(t) ==
    /\ pc[t] = "start_add"
    /\ count' = count + 1
    /\ pc' = [pc EXCEPT ![t] = "running"]
    /\ admittedLate' = (admittedLate \/ ctxCancelled)
    /\ UNCHANGED <<ctxCancelled, ncalls, spc, dl, how, sawCount, signals, zeroed,
                   others>>

(***************************************************************************)
(* FinishTask: count.Add(-1); then ctx.Err() != nil && count.Load() == 0   *)
(* (two reads, the second only when the first is true); then the send.     *)
(***************************************************************************)
\* FinishTask without count.Add(-1).
FinishTaskNoAdd(t) ==
    /\ pc[t] = "running"
    /\ pc' = [pc EXCEPT ![t] = "fin_err"]
    /\ UNCHANGED <<count, ctxCancelled, ncalls, spc, dl, how, sawCount, signals,
                   admittedLate, zeroed,
                   others>>

FinishTaskAdd(t) ==
    /\ pc[t] = "running"
    /\ count' = count - 1
    /\ zeroed' = IF count - 1 = 0 THEN zeroed \cup {t} ELSE zeroed
    /\ pc' = [pc EXCEPT ![t] = "fin_err"]
    /\ UNCHANGED <<ctxCancelled, ncalls, spc, dl, how, sawCount, signals,
                   admittedLate,
                   others>>

FinishTaskCtxErr(t) ==
    /\ pc[t] = "fin_err"
    /\ pc' = [pc EXCEPT ![t] = IF CtxErr THEN "fin_load" ELSE "done"]
    /\ UNCHANGED <<count, ctxCancelled, ncalls, spc, dl, how, sawCount, signals,
                   admittedLate, zeroed,
                   others>>

FinishTaskLoad(t) ==
    /\ pc[t] = "fin_load"
    /\ pc' = [pc EXCEPT ![t] = IF count = 0 THEN "fin_send" ELSE "done"]
    /\ UNCHANGED <<count, ctxCancelled, ncalls, spc, dl, how, sawCount, signals,
                   admittedLate, zeroed,
                   others>>

(***************************************************************************)
(* Shutdown(ctx): cancelFunc(); count.Load(); select on ctx.Done() and     *)
(* doneCh.  d is the state of the caller's ctx at the call: "none" is a    *)
(* ctx without a deadline, "pending" one whose deadline has not passed.    *)
(***************************************************************************)
DeadlineKinds == {"none", "pending"}

\* Shutdown without the cancelFunc() call.
ShutdownNoCancel(d) ==
    /\ spc \in {"idle", "returned"}
    /\ ncalls' = ncalls + 1
    /\ spc' = "load"
    /\ dl' = d
    /\ how' = "none"
    /\ sawCount' = -1
    /\ signals' = 0
    /\ UNCHANGED <<count, ctxCancelled, pc, admittedLate, zeroed,
                   others>>

ShutdownCancel(d) ==
    /\ spc \in {"idle", "returned"}
    /\ ncalls' = ncalls + 1
    /\ ctxCancelled' = TRUE
    /\ spc' = "load"
    /\ dl' = d
    /\ how' = "none"
    /\ sawCount' = -1
    /\ signals' = 0
    /\ UNCHANGED <<count, pc, admittedLate, zeroed,
                   others>>

\* Shutdown that returns nil without looking at the count.
ShutdownLoadNoWait ==
    /\ spc = "load"
    /\ sawCount' = count
    /\ spc' = "returned"
    /\ how' = "fast"
    /\ UNCHANGED <<count, ctxCancelled, pc, ncalls, dl, signals, admittedLate, zeroed,
                   others>>

ShutdownLoad ==
    /\ spc = "load"
    /\ sawCount' = count
    /\ IF count = 0
         THEN /\ spc' = "returned"
              /\ how' = "fast"
         ELSE /\ spc' = "select"
              /\ how' = how
    /\ UNCHANGED <<count, ctxCancelled, pc, ncalls, dl, signals, admittedLate, zeroed,
                   others>>

\* case <-ctx.Done(): return fmt.Errorf("shutdown timed out: %w", ctx.Err())
ShutdownTimeout ==
    /\ spc = "select"
    /\ dl = "elapsed"
    /\ spc' = "returned"
    /\ how' = "timeout"
    /\ UNCHANGED <<count, ctxCancelled, pc, ncalls, dl, sawCount, signals,
                   admittedLate, zeroed,
                   others>>

\* case <-t.doneCh: return nil   -- the rendezvous with the sender t
ShutdownRecv(t) ==
    /\ spc = "select"
    /\ t \in doneCh
    /\ pc' = [pc EXCEPT ![t] = "done"]
    /\ spc' = "returned"
    /\ how' = "signal"
    /\ signals' = signals + 1
    /\ UNCHANGED <<count, ctxCancelled, ncalls, dl, sawCount, admittedLate, zeroed,
                   others>>

\* The deadline of the ctx given to the Shutdown call passes.
DeadlineElapse ==
    /\ spc \in {"load", "select"}
    /\ dl = "pending"
    /\ dl' = "elapsed"
    /\ UNCHANGED <<count, ctxCancelled, pc, ncalls, spc, how, sawCount, signals,
                   admittedLate, zeroed,
                   others>>

\* TaskCount
TaskCount == count

(***************************************************************************)
(* Spec: the tracker used directly.  Task goroutines call StartTask and,   *)
(* when it succeeded, FinishTask once; Shutdown is called one call at a    *)
(* time, a later call after the earlier one returned.                      *)
(***************************************************************************)
\* No request is in a chain.
NoRequests ==
    /\ stage = [r \in Tasks |-> "none"]
    /\ index = [r \in Tasks |-> -1]
    /\ ran = [r \in Tasks |-> <<>>]
    /\ resp = [r \in Tasks |-> "none"]
    /\ panicked = [r \in Tasks |-> FALSE]

\* Run is not called.
NoRun ==
    /\ rpc = "idle"
    /\ runResult = "none"
    /\ lpc = "idle"
    /\ hasTracker = FALSE
    /\ quit = 0
    /\ sigSent = FALSE
    /\ srvClosed = FALSE
    /\ srvErr = "none"
    /\ lfail = "none"

\* New is not called.
NoCompose ==
    /\ handlers = <<>>
    /\ rootMiddlewares = <<>>
    /\ flatRoutes = <<>>
    /\ flatGroups = <<>>
    /\ flatMiddlewares = <<>>
    /\ ginRoutes = <<>>
    /\ log = <<>>
    /\ cpc = "idle"
    /\ ci = 0

\* The empty Handler: &Handler{}
EmptyHandler == [routes |-> <<>>, casualRoutes |-> <<>>, groups |-> <<>>, middlewares |-> <<>>]

\* AsHandler is not called.
NoDiscover ==
    /\ hstruct = [fields |-> <<>>]
    /\ apc = "idle"
    /\ hnd = EmptyHandler
    /\ aret = [handler |-> <<>>, err |-> <<>>]
    /\ parsed = <<>>

\* No request on a casual route.
NoCasual ==
    /\ casualR = [arity |-> 1, accept |-> "json"]
    /\ kpc = "idle"
    /\ bindErr = <<>>
    /\ called = FALSE
    /\ respArr = <<>>
    /\ written = <<>>
    /\ aborted = FALSE

Init == TrackerInit /\ NoRequests /\ NoRun /\ NoCompose /\ NoDiscover /\ NoCasual

CallShutdown ==
    /\ ncalls < MaxShutdownCalls
    /\ \E d \in DeadlineKinds : ShutdownCancel(d)

Next ==
    \/ \E t \in Tasks : StartTaskCheck(t)
    \/ \E t \in Tasks : StartTaskAdd(t)
    \/ \E t \in Tasks : FinishTaskAdd(t)
    \/ \E t \in Tasks : FinishTaskCtxErr(t)
    \/ \E t \in Tasks : FinishTaskLoad(t)
    \/ CallShutdown
    \/ ShutdownLoad
    \/ ShutdownTimeout
    \/ \E t \in Tasks : ShutdownRecv(t)
    \/ DeadlineElapse

Spec == Init /\ [][Next]_vars

(***************************************************************************)
(* The task-tracker middleware inside a gin chain.                         *)
(*                                                                         *)
(* gin runs a chain with Context.Next: index++, then while index is inside *)
(* the chain it calls handlers[index] and does index++ again.  A step that *)
(* returns without having called ctx.Abort() leaves index where it is, so  *)
(* the loop goes on to the step after it.                                  *)
(***************************************************************************)
\* The chain of the route: the tracker middleware, then the terminal handler.
Chain == <<"taskTracker", "handler">>

(***************************************************************************)
(* Error values (src/casual/http_error_response.go).  An error is its      *)
(* dynamic type (kind), its Error() text, and, by kind: the httpCode, the  *)
(* frontendMessage (<<>> is nil) and the Message field of an HttpError;    *)
(* the field errors of a validator.ValidationErrors; the error a wrapping  *)
(* error holds (inner, <<>> when it wraps nothing).                        *)
(***************************************************************************)
ErrorValue(kind, text, httpCode, frontend, message, fields, inner) ==
    [kind |-> kind, text |-> text, httpCode |-> httpCode, frontendMessage |-> frontend,
     Message |-> message, fields |-> fields, inner |-> inner]

\* errors.New(text)
PlainError(text) == ErrorValue("plain", text, 0, <<>>, "", <<>>, <<>>)

\* NewHTTPErrorFromMessage(httpCode, message): frontendMessage = &message
NewHTTPErrorFromMessage(httpCode, message) ==
    ErrorValue("HttpError", message, httpCode, <<message>>, "", <<>>, <<>>)

\* NewHTTPErrorFromError(httpCode, err): no frontendMessage
NewHTTPErrorFromError(httpCode, err) ==
    ErrorValue("HttpError", err.text, httpCode, <<>>, "", <<>>, <<>>)

\* fmt.Errorf("wrapped: %w", err)
WrapError(err) == ErrorValue("wrapped", "wrapped", 0, <<>>, "", <<>>, <<err>>)

\* validator.ValidationErrors: one [Field, Tag] per failed field.
ValidationErrors(fields) == ErrorValue("validation", "validation failed", 0, <<>>, "", fields, <<>>)

\* errors.As(err, &target): err or the error it wraps has this type.
ErrorsAs(err, kind) ==
    \/ err.kind = kind
    \/ err.inner # <<>> /\ err.inner[1].kind = kind

\* The error errors.As stores in the target.
AsTarget(err, kind) == IF err.kind = kind THEN err ELSE err.inner[1]

\* HttpError.GetMessage
GetMessage(e) ==
    IF e.frontendMessage # <<>> THEN e.frontendMessage[1]
    ELSE IF e.Message # "" THEN e.Message
    ELSE e.text

\* getValidationErrorText
getValidationErrorText(tag) ==
    CASE tag = "required" -> "Field is required"
      [] tag = "notempty" -> "Param should not be empty"
      [] tag = "url" -> "Param should be valid url"
      [] OTHER -> "Unknown error"

\* ErrShutdown = casual.NewHTTPErrorFromMessage(503, "server is shutting down")
ErrShutdown == NewHTTPErrorFromMessage(503, "server is shutting down")

\* casual.NewHttpErrorResponse(err) without options: the envelope, or a panic
\* of the unchecked assertion err.(HttpError) when errors.As found the
\* HttpError inside another error.
NewHttpErrorResponse(err) ==
    IF ErrorsAs(err, "HttpError")
    THEN IF err.kind = "HttpError"
         THEN [panic |-> FALSE, Status |-> AsTarget(err, "HttpError").httpCode,
               Message |-> GetMessage(err), Details |-> <<>>]
         ELSE [panic |-> TRUE, Status |-> 0, Message |-> "", Details |-> <<>>]
    ELSE IF ErrorsAs(err, "validation")
    THEN LET ve == AsTarget(err, "validation").fields
         IN  [panic |-> FALSE,
              Status |-> IF ve = <<>> THEN 500 ELSE 422,
              Message |-> err.text,
              Details |-> [i \in 1..Len(ve) |->
                             [Field |-> ve[i].Field,
                              Issue |-> getValidationErrorText(ve[i].Tag)]]]
    ELSE [panic |-> FALSE, Status |-> 500, Message |-> err.text, Details |-> <<>>]

\* The engine takes a request and calls handlers[0], the tracker middleware.
ReqArrive(r) ==
    /\ stage[r] = "none"
    /\ pc[r] = "idle"
    /\ stage' = [stage EXCEPT ![r] = "mw"]
    /\ index' = [index EXCEPT ![r] = 0]
    /\ UNCHANGED <<ran, resp, panicked, tvars, rvars, cvars, xvars>>

\* err := ttmw.tt.StartTask()
MwStartTaskCheck(r) == stage[r] = "mw" /\ StartTaskCheck(r)

MwStartTaskAdd(r) == stage[r] = "mw" /\ StartTaskAdd(r)

\* if err != nil { log.Error(...); ctx.JSON(NewHttpErrorResponse(ErrShutdown)); return }
\* The middleware returns to gin's loop, which does index++.
MwRefuse(r) ==
    /\ stage[r] = "mw"
    /\ pc[r] = "refused"
    /\ resp' = [resp EXCEPT ![r] = NewHttpErrorResponse(ErrShutdown)]
    /\ index' = [index EXCEPT ![r] = @ + 1]
    /\ stage' = [stage EXCEPT ![r] = "chain"]
    /\ UNCHANGED <<ran, panicked, tvars, rvars, cvars, xvars>>

\* defer ttmw.tt.FinishTask(); ctx.Next()
MwNext(r) ==
    /\ stage[r] = "mw"
    /\ pc[r] = "running"
    /\ index' = [index EXCEPT ![r] = @ + 1]
    /\ stage' = [stage EXCEPT ![r] = "chain"]
    /\ UNCHANGED <<ran, resp, panicked, tvars, rvars, cvars, xvars>>

\* FinishTask called after ctx.Next() without defer: a panic skips it.
AfterChainNoDefer(r) ==
    IF pc[r] = "running" /\ index[r] >= Len(Chain) THEN "fin" ELSE "done"

\* Where the request goes when the steps after the middleware are over:
\* to the deferred FinishTask when StartTask had succeeded.
AfterChain(r) == IF pc[r] = "running" THEN "fin" ELSE "done"

\* gin calls handlers[index]; the step returns (index++) or panics.
ChainStep(r, panics) ==
    /\ stage[r] = "chain"
    /\ index[r] < Len(Chain)
    /\ ran' = [ran EXCEPT ![r] = Append(@, Chain[index[r] + 1])]
    /\ panicked' = [panicked EXCEPT ![r] = panics]
    /\ IF panics
         THEN /\ stage' = [stage EXCEPT ![r] = AfterChain(r)]
              /\ index' = index
         ELSE /\ index' = [index EXCEPT ![r] = @ + 1]
              /\ stage' = stage
    /\ UNCHANGED <<resp, tvars, rvars, cvars, xvars>>

\* The loop of Context.Next ends.
ChainEnd(r) ==
    /\ stage[r] = "chain"
    /\ index[r] >= Len(Chain)
    /\ stage' = [stage EXCEPT ![r] = AfterChain(r)]
    /\ UNCHANGED <<index, ran, resp, panicked, tvars, rvars, cvars, xvars>>

\* The deferred ttmw.tt.FinishTask()
MwFinishTask(r) == stage[r] = "fin" /\ FinishTaskAdd(r)

MwNext_ ==
    \/ \E r \in Tasks : ReqArrive(r)
    \/ \E r \in Tasks : MwStartTaskCheck(r)
    \/ \E r \in Tasks : MwStartTaskAdd(r)
    \/ \E r \in Tasks : MwRefuse(r)
    \/ \E r \in Tasks : MwNext(r)
    \/ \E r \in Tasks, panics \in BOOLEAN : ChainStep(r, panics)
    \/ \E r \in Tasks : ChainEnd(r)
    \/ \E r \in Tasks : MwFinishTask(r)
    \/ \E t \in Tasks : FinishTaskCtxErr(t)
    \/ \E t \in Tasks : FinishTaskLoad(t)
    \/ CallShutdown
    \/ ShutdownLoad
    \/ ShutdownTimeout
    \/ \E t \in Tasks : ShutdownRecv(t)
    \/ DeadlineElapse

SpecMw == Init /\ [][MwNext_]_vars

(***************************************************************************)
(* core.Run: a goroutine runs srv.ListenAndServe and sends its result on   *)
(* the unbuffered errChan; Run waits for SIGINT/SIGTERM, makes one ctx     *)
(* with the shutdown timeout, calls srv.Shutdown(ctx), then (when a        *)
(* tracker is configured) taskTracker.Shutdown(ctx), then receives from    *)
(* errChan.  dl is the state of that one ctx.  The tasks of the tracker    *)
(* are whatever work the program runs under it.                            *)
(***************************************************************************)
RunInit ==
    /\ rpc = "idle"
    /\ runResult = "none"
    /\ lpc = "idle"
    /\ hasTracker \in BOOLEAN
    /\ quit = 0
    /\ sigSent = FALSE
    /\ srvClosed = FALSE
    /\ srvErr = "none"
    /\ lfail = "none"

\* errChan := make(chan error); go func() {...}(); signal.Notify(quit, ...)
RunStart ==
    /\ rpc = "idle"
    /\ rpc' = "wait_signal"
    /\ lpc' = "serving"
    /\ UNCHANGED <<runResult, hasTracker, quit, sigSent, lfail, srvClosed, srvErr,
                   tvars, mvars, cvars, xvars>>

\* srv.ListenAndServe() returns an error other than http.ErrServerClosed.
ListenFail ==
    /\ lpc = "serving"
    /\ lpc' = "send_err"
    /\ lfail' = IF sigSent THEN "late" ELSE "early"
    /\ UNCHANGED <<rpc, runResult, hasTracker, quit, sigSent, srvClosed, srvErr,
                   tvars, mvars, cvars, xvars>>

\* srv.ListenAndServe() returns http.ErrServerClosed: the goroutine sends nil.
ListenClosed ==
    /\ lpc = "serving"
    /\ srvClosed
    /\ lpc' = "send_nil"
    /\ UNCHANGED <<rpc, runResult, hasTracker, quit, sigSent, lfail, srvClosed, srvErr,
                   tvars, mvars, cvars, xvars>>

\* The process gets SIGINT or SIGTERM; quit has room for one signal.
Signal ==
    /\ rpc # "idle"
    /\ quit = 0
    /\ quit' = 1
    /\ sigSent' = TRUE
    /\ UNCHANGED <<rpc, runResult, lpc, hasTracker, srvClosed, srvErr, lfail, tvars, mvars, cvars, xvars>>

\* sig := <-quit; ctx, cancel := context.WithTimeout(..., c.shutdownTimeout)
RunRecvSignal ==
    /\ rpc = "wait_signal"
    /\ quit = 1
    /\ quit' = 0
    /\ dl' = "pending"
    /\ rpc' = "srv_shutdown"
    /\ UNCHANGED <<runResult, lpc, hasTracker, sigSent, lfail, srvClosed, srvErr,
                   count, ctxCancelled, pc, ncalls, spc, how, sawCount, signals,
                   admittedLate, zeroed, mvars, cvars, xvars>>

\* srv.Shutdown(ctx) is called: the listeners are closed.
RunSrvShutdownCall ==
    /\ rpc = "srv_shutdown"
    /\ srvClosed' = TRUE
    /\ rpc' = "srv_wait"
    /\ UNCHANGED <<runResult, lpc, hasTracker, quit, sigSent, lfail, srvErr, tvars, mvars, cvars, xvars>>

\* The deadline of Run's ctx passes while Run is between the two Shutdowns.
RunDeadlineElapse ==
    /\ rpc \in {"srv_shutdown", "srv_wait", "tracker_shutdown"}
    /\ spc = "idle"
    /\ dl = "pending"
    /\ dl' = "elapsed"
    /\ UNCHANGED <<rvars, count, ctxCancelled, pc, ncalls, spc, how, sawCount,
                   signals, admittedLate, zeroed, mvars, cvars, xvars>>

\* What srv.Shutdown(ctx) can return: nil, the error of closing a listener,
\* or ctx.Err() once the deadline has passed.
SrvShutdownResults == {"nil", "lnerr"} \cup (IF dl = "elapsed" THEN {"ctxerr"} ELSE {})

\* Run going on to the tracker whatever srv.Shutdown returned.
RunSrvShutdownReturnIgnoreErr(e) ==
    /\ rpc = "srv_wait"
    /\ e \in SrvShutdownResults
    /\ srvErr' = e
    /\ runResult' = runResult
    /\ rpc' = IF hasTracker THEN "tracker_shutdown" ELSE "recv_errchan"
    /\ UNCHANGED <<lpc, hasTracker, quit, sigSent, lfail, srvClosed, tvars, mvars, cvars, xvars>>

\* if err := srv.Shutdown(ctx); err != nil { return "server shutdown failed" }
\* if c.taskTracker != nil { ... }
RunSrvShutdownReturn(e) ==
    /\ rpc = "srv_wait"
    /\ e \in SrvShutdownResults
    /\ srvErr' = e
    /\ IF e # "nil"
         THEN /\ runResult' = "server shutdown failed"
              /\ rpc' = "done"
         ELSE /\ runResult' = runResult
              /\ rpc' = IF hasTracker THEN "tracker_shutdown" ELSE "recv_errchan"
    /\ UNCHANGED <<lpc, hasTracker, quit, sigSent, lfail, srvClosed, tvars, mvars, cvars, xvars>>

\* c.taskTracker.Shutdown(ctx), with Run's ctx
RunTrackerShutdownCall ==
    /\ rpc = "tracker_shutdown"
    /\ spc = "idle"
    /\ ShutdownCancel(dl)

\* if err := c.taskTracker.Shutdown(ctx); err != nil {
\*     return "task tracker shutdown failed" }
RunTrackerShutdownReturn ==
    /\ rpc = "tracker_shutdown"
    /\ spc = "returned"
    /\ IF how = "timeout"
         THEN /\ runResult' = "task tracker shutdown failed"
              /\ rpc' = "done"
         ELSE /\ runResult' = runResult
              /\ rpc' = "recv_errchan"
    /\ UNCHANGED <<lpc, hasTracker, quit, sigSent, lfail, srvClosed, srvErr, tvars, mvars, cvars, xvars>>

\* Run taking the listener's result as soon as it is sent.
RunRecvErrChanBeforeSignal ==
    /\ rpc \in {"wait_signal", "recv_errchan"}
    /\ lpc \in {"send_nil", "send_err"}
    /\ runResult' = IF lpc = "send_err" THEN "listen_err" ELSE "nil"
    /\ rpc' = "done"
    /\ lpc' = "exited"
    /\ UNCHANGED <<hasTracker, quit, sigSent, lfail, srvClosed, srvErr, tvars, mvars, cvars, xvars>>

\* return <-errChan   -- the rendezvous with the listener goroutine
RunRecvErrChan ==
    /\ rpc = "recv_errchan"
    /\ lpc \in {"send_nil", "send_err"}
    /\ runResult' = IF lpc = "send_err" THEN "listen_err" ELSE "nil"
    /\ rpc' = "done"
    /\ lpc' = "exited"
    /\ UNCHANGED <<hasTracker, quit, sigSent, lfail, srvClosed, srvErr, tvars, mvars, cvars, xvars>>

RunNext ==
    \/ RunStart
    \/ ListenFail
    \/ ListenClosed
    \/ Signal
    \/ RunRecvSignal
    \/ RunSrvShutdownCall
    \/ RunDeadlineElapse
    \/ \E e \in {"nil", "lnerr", "ctxerr"} : RunSrvShutdownReturn(e)
    \/ RunTrackerShutdownCall
    \/ RunTrackerShutdownReturn
    \/ RunRecvErrChan
    \/ \E t \in Tasks : StartTaskCheck(t)
    \/ \E t \in Tasks : StartTaskAdd(t)
    \/ \E t \in Tasks : FinishTaskAdd(t)
    \/ \E t \in Tasks : FinishTaskCtxErr(t)
    \/ \E t \in Tasks : FinishTaskLoad(t)
    \/ ShutdownLoad
    \/ ShutdownTimeout
    \/ \E t \in Tasks : ShutdownRecv(t)
    \/ DeadlineElapse

InitRun == TrackerInit /\ NoRequests /\ RunInit /\ NoCompose /\ NoDiscover /\ NoCasual

SpecRun == InitRun /\ [][RunNext]_vars

(***************************************************************************)
(* LiveSpec: Spec with the fairness the Go runtime gives: a goroutine that *)
(* can take its next step takes it (the steps inside StartTask, FinishTask *)
(* and Shutdown), and a pending deadline passes.  Whether a task is ever   *)
(* started or finished, and whether Shutdown is ever called, is up to the  *)
(* callers: no fairness.                                                   *)
(***************************************************************************)
Fairness ==
    /\ \A t \in Tasks : WF_vars(StartTaskAdd(t))
    /\ \A t \in Tasks : WF_vars(FinishTaskCtxErr(t))
    /\ \A t \in Tasks : WF_vars(FinishTaskLoad(t))
    /\ \A t \in Tasks : WF_vars(ShutdownRecv(t))
    /\ WF_vars(ShutdownLoad)
    /\ WF_vars(ShutdownTimeout)
    /\ WF_vars(DeadlineElapse)

LiveSpec == Spec /\ Fairness

ReturnedNil == spc = "returned" /\ how \in {"fast", "signal"}

(***************************************************************************)
(* C1: when every successful StartTask returned before Shutdown was called *)
(* (no count.Add(1) after the cancel), a Shutdown whose deadline never     *)
(* expires does not return before every started task has done its         *)
(* FinishTask decrement, never returns the timeout error, and once every   *)
(* started task has decremented it returns nil.                            *)
(***************************************************************************)
C1_ShutdownWaitsForAllTasks ==
    /\ []((ReturnedNil /\ ~admittedLate) => Started \subseteq Decremented)
    /\ []((spc = "returned" /\ dl = "none") => how # "timeout")
    /\ (/\ spc \in {"load", "select"}
        /\ dl = "none"
        /\ ~admittedLate
        /\ \A t \in Tasks : pc[t] # "start_add"
        /\ Started \subseteq Decremented)
         ~> ReturnedNil

C1_Witness ==
    /\ Cardinality(Decremented) = MaxTasks
    /\ ~admittedLate
    /\ ncalls = 1
    /\ dl = "none"
    /\ spc = "returned"
    /\ how = "signal"

(***************************************************************************)
(* C2: a StartTask that begins after Shutdown has been invoked returns     *)
(* ErrTerminating and leaves count unchanged, and stays refused.           *)
(***************************************************************************)
C2_StartAfterShutdownRefused ==
    [][\A t \in Tasks :
         /\ (pc[t] = "idle" /\ ncalls > 0 /\ pc'[t] # "idle")
               => (pc'[t] = "refused" /\ count' = count)
         /\ pc[t] = "refused" => pc'[t] = "refused"]_vars

C2_Witness ==
    \E t, u \in Tasks :
        /\ pc[t] = "refused"
        /\ pc[u] = "running"
        /\ spc = "select"
        /\ count = 1

(***************************************************************************)
(* C3: once the tracker is terminating (cancelFunc has run), no StartTask  *)
(* increments count or returns success.                                    *)
(***************************************************************************)
C3_NoAdmissionAfterTerminating ==
    [][ctxCancelled =>
         /\ count' <= count
         /\ \A t \in Tasks : pc[t] # "running" => pc'[t] # "running"]_vars

(***************************************************************************)
(* C4: FinishTask never waits for another party: a FinishTask is never     *)
(* parked on the doneCh send while no Shutdown call is in progress to      *)
(* receive it.                                                             *)
(***************************************************************************)
C4_FinishTaskNeverBlocks ==
    \A t \in Tasks : pc[t] = "fin_send" => spc \in {"load", "select"}

(***************************************************************************)
(* C5: Shutdown makes the tracker terminating; a zero count returns nil at *)
(* once; otherwise nil is returned only after one signal was received and  *)
(* the timeout error only after the deadline elapsed; and a Shutdown whose *)
(* deadline eventually elapses eventually returns.                         *)
(***************************************************************************)
C5_ShutdownContract ==
    /\ [](/\ ncalls > 0 => ctxCancelled
          /\ sawCount = 0 => (spc = "returned" /\ how = "fast")
          /\ how = "fast" => (sawCount = 0 /\ signals = 0)
          /\ how = "signal" => (sawCount > 0 /\ signals = 1)
          /\ how = "timeout" => (sawCount > 0 /\ signals = 0 /\ dl = "elapsed"))
    /\ (spc \in {"load", "select"} /\ dl # "none") ~> (spc = "returned")

C5_Witness ==
    /\ how = "timeout"
    /\ sawCount = MaxTasks
    /\ \E t \in Tasks : pc[t] = "running"

(***************************************************************************)
(* C6: once Shutdown has been initiated, a request that reached the        *)
(* middleware and was refused has the 503 "server is shutting down"        *)
(* response, was not counted, and no step after the middleware was run     *)
(* for it.                                                                 *)
(***************************************************************************)
C6_RefusedRequestStopsChain ==
    \A r \in Tasks :
        (pc[r] = "refused" /\ stage[r] \in {"chain", "done"}) =>
            /\ resp[r].Status = 503 /\ resp[r].Message = "server is shutting down"
            /\ r \notin Started
            /\ ran[r] = <<>>

(***************************************************************************)
(* C7: Run shuts the HTTP server down only after a signal, waits on the    *)
(* tracker only after srv.Shutdown returned nil and only when a tracker is *)
(* configured, gives both the one ctx (a deadline that has passed stays    *)
(* passed), and returns "server shutdown failed" exactly for an error of   *)
(* srv.Shutdown and "task tracker shutdown failed" exactly for the         *)
(* tracker's timeout.                                                      *)
(***************************************************************************)
C7_RunShutdownOrder ==
    /\ [](/\ srvClosed => sigSent
          /\ ncalls > 0 => (hasTracker /\ srvErr = "nil")
          /\ ncalls <= 1
          /\ ~hasTracker => spc = "idle"
          /\ srvErr \in {"lnerr", "ctxerr"} <=> runResult = "server shutdown failed"
          /\ runResult = "server shutdown failed" => ncalls = 0
          /\ runResult = "task tracker shutdown failed" =>
                 (srvErr = "nil" /\ how = "timeout" /\ dl = "elapsed")
          /\ (how = "timeout" /\ rpc # "tracker_shutdown") =>
                 runResult = "task tracker shutdown failed")
    /\ [][dl = "elapsed" => dl' = "elapsed"]_vars

C7_Witness ==
    /\ runResult = "task tracker shutdown failed"
    /\ srvErr = "nil"
    /\ \E t \in Tasks : pc[t] = "running"


(***************************************************************************)
(* New (src/casual.go): flatHandlers merges the handlers' routes, groups   *)
(* and middlewares; applyHandlers then builds, for every flat route, its   *)
(* path and its handler chain and hands them to gin.                       *)
(*                                                                         *)
(* A string that the code takes apart (a path) is a sequence of            *)
(* one-character strings; a name that is only compared is a string.  A     *)
(* gin.HandlerFunc is named by the method it was taken from.               *)
(***************************************************************************)

\* Routes one handler struct declares, at most.
MaxRoutes == 2

\* A gin.HandlerFunc.
HandlerFunc(kind, name) == [kind |-> kind, name |-> name]

Mw(name, nested, fn) ==
    [middleware |-> name, middlewares |-> nested, handler |-> HandlerFunc("middleware", fn)]

Gr(name, path, mws) == [name |-> name, Path |-> path, middlewares |-> mws]

Rt(method, path, group, mws, fn) ==
    [method |-> method, path |-> path, group |-> group, middlewares |-> mws,
     handler |-> HandlerFunc("route", fn)]

\* A casualRoute: its handler is the reflected method, wrapped by flatHandlers.
CasualRt(method, path, group, mws, fn) ==
    [method |-> method, path |-> path, group |-> group, middlewares |-> mws,
     handler |-> fn]

\* strings.TrimSuffix(s, "/") and strings.TrimPrefix(s, "/")
TrimSuffix(s, c) == IF Len(s) > 0 /\ s[Len(s)] = c THEN SubSeq(s, 1, Len(s) - 1) ELSE s

TrimPrefix(s, c) == IF Len(s) > 0 /\ s[1] = c THEN SubSeq(s, 2, Len(s)) ELSE s

(***************************************************************************)
(* The inputs: what AsHandler can build from a struct.  Middleware and     *)
(* group names are lower case, lists of names hold no empty name.  "x"     *)
(* names a middleware that nobody declares.                                *)
(***************************************************************************)
GroupPaths == {<<"/", "a">>, <<"/", "a", "/">>, <<"/", "a", "/", "/">>}

RoutePaths == {<<"/", "p">>, <<"p">>, <<"/", "/", "p">>}

NestedLists == {<<>>, <<"b", "a">>, <<"x", "a">>}

GroupMiddlewareLists == {<<"b">>, <<"c", "x">>}

RouteMiddlewareLists == {<<"c">>, <<"a", "c">>, <<"x", "a">>}

\* Handler.middlewares: "a", maybe "b", maybe "c" that may apply others.
MiddlewareDecls ==
    LET plain == {<<Mw("a", <<>>, "A")>>, <<Mw("a", <<>>, "A"), Mw("b", <<>>, "B")>>}
    IN  plain \cup {p \o <<Mw("c", n, "C")>> : p \in plain, n \in NestedLists}

\* Handler.groups: none, or the group "g".
GroupDecls ==
    {<<>>} \cup {<<Gr("g", p, m)>> : p \in GroupPaths, m \in GroupMiddlewareLists}

FirstRoutes ==
    {Rt(IF g = "" THEN "GET" ELSE "ANY", p, g, m, "h1") :
        p \in RoutePaths, g \in {"", "g"}, m \in RouteMiddlewareLists}

MoreRoutes ==
    {Rt("GET", <<"/", "p">>, "g", <<"b">>, "h2"),
     Rt("POST", <<"p">>, "", <<>>, "h2")}

RECURSIVE RouteDecls(_)
\* Handler.routes: one to n routes.
RouteDecls(n) ==
    IF n = 1 THEN {<<r>> : r \in FirstRoutes}
    ELSE LET shorter == RouteDecls(n - 1)
         IN  shorter \cup {rs \o <<r>> : rs \in {q \in shorter : Len(q) = n - 1}, r \in MoreRoutes}

MainHandlers ==
    {[routes |-> rs, casualRoutes |-> <<>>, groups |-> gs, middlewares |-> ms] :
        rs \in RouteDecls(MaxRoutes), gs \in GroupDecls, ms \in MiddlewareDecls}

\* A second handler struct: one casual route, its own "g" and its own "a".
OtherHandler ==
    [routes |-> <<>>,
     casualRoutes |-> <<CasualRt("GET", <<"/", "q">>, "g", <<"a">>, "m1")>>,
     groups |-> <<Gr("g", <<"/", "b">>, <<"a">>)>>,
     middlewares |-> <<Mw("a", <<>>, "A2")>>]

HandlerLists ==
    {<<h>> : h \in MainHandlers}
        \cup {<<h, OtherHandler>> : h \in MainHandlers}
        \cup {<<OtherHandler, h>> : h \in MainHandlers}

\* What WithRootMiddlewares was given: handlers whose middlewares are used.
RootDecls ==
    {<<>>,
     <<[middlewares |-> <<Mw("r", <<>>, "R")>>]>>,
     <<[middlewares |-> <<Mw("r", <<"a">>, "R"), Mw("s", <<>>, "S")>>],
       [middlewares |-> <<Mw("t", <<>>, "T")>>]>>}


\* strings.ToLower on a name.
ToLower(n) ==
    CASE n = "A" -> "a" [] n = "B" -> "b" [] n = "C" -> "c" [] n = "G" -> "g"
      [] n = "V3" -> "v3" [] OTHER -> n

\* One call of c.log.Warn / c.log.Info: the message and its key/values.
LogRecord(level, msg, path, name, of, mws) ==
    [level |-> level, msg |-> msg, path |-> path, name |-> name, of |-> of,
     middlewares |-> mws]

\* The messages applyHandlers logs.
WarnGroupMiddleware == "skipping group middleware because there is no middleware with this name"

WarnNestedMiddleware == "skipping middleware of middleware because there is no middleware with this name"

WarnRouteMiddleware == "skipping route middleware because there is no middleware with this name"

WarnGroupNotFound == "skipping group because group was not found"

InfoRegistered == "route was registered"

(***************************************************************************)
(* flatHandlers, one handler per step.                                     *)
(***************************************************************************)
\* The Route that flatHandlers builds for a casualRoute (cb wraps the method).
FlatCasualRoute(cr) ==
    [method |-> cr.method, path |-> cr.path, group |-> cr.group,
     middlewares |-> cr.middlewares, handler |-> HandlerFunc("casual", cr.handler)]

RECURSIVE PutGroupsFirstWins(_, _)
\* The merge of groups that keeps the declaration the table already holds.
PutGroupsFirstWins(fg, gs) ==
    IF gs = <<>> THEN fg
    ELSE PutGroupsFirstWins(fg @@ (Head(gs).name :> Head(gs)), Tail(gs))

RECURSIVE PutGroups(_, _)
\* for _, group := range handler.groups { c.flatGroups[group.name] = group }
PutGroups(fg, gs) ==
    IF gs = <<>> THEN fg
    ELSE PutGroups((Head(gs).name :> Head(gs)) @@ fg, Tail(gs))

RECURSIVE PutMiddlewares(_, _)
\* for _, middleware := range handler.middlewares { c.flatMiddlewares[ToLower(..)] = .. }
PutMiddlewares(fm, ms) ==
    IF ms = <<>> THEN fm
    ELSE PutMiddlewares((ToLower(Head(ms).middleware) :> Head(ms)) @@ fm, Tail(ms))

\* flatHandlers without the loop over handler.casualRoutes.
FlatHandlersStepCasualSkipped ==
    /\ cpc = "flatHandlers"
    /\ ci <= Len(handlers)
    /\ LET handler == handlers[ci]
       IN  /\ flatRoutes' = flatRoutes \o handler.routes
           /\ flatGroups' = PutGroups(flatGroups, handler.groups)
           /\ flatMiddlewares' = PutMiddlewares(flatMiddlewares, handler.middlewares)
    /\ IF ci = Len(handlers)
       THEN cpc' = "applyHandlers" /\ ci' = 1
       ELSE cpc' = cpc /\ ci' = ci + 1
    /\ UNCHANGED <<handlers, rootMiddlewares, ginRoutes, log, tvars, mvars, rvars, xvars>>

FlatHandlersStep ==
    /\ cpc = "flatHandlers"
    /\ ci <= Len(handlers)
    /\ LET handler == handlers[ci]
       IN  /\ flatRoutes' = flatRoutes \o handler.routes
                              \o [i \in 1..Len(handler.casualRoutes) |->
                                     FlatCasualRoute(handler.casualRoutes[i])]
           /\ flatGroups' = PutGroups(flatGroups, handler.groups)
           /\ flatMiddlewares' = PutMiddlewares(flatMiddlewares, handler.middlewares)
    /\ IF ci = Len(handlers)
       THEN cpc' = "applyHandlers" /\ ci' = 1
       ELSE cpc' = cpc /\ ci' = ci + 1
    /\ UNCHANGED <<handlers, rootMiddlewares, ginRoutes, log, tvars, mvars, rvars, xvars>>

(***************************************************************************)
(* applyHandlers, one route per step.  The loops over the root, group and  *)
(* route middlewares carry  acc = [handleStack, log, appliedMiddlewares].  *)
(***************************************************************************)
RECURSIVE RootHandlers(_)
\* for _, mw := range c.rootMiddlewares { for _, middleware := range mw.middlewares {..} }
RootHandlers(root) ==
    IF root = <<>> THEN <<>>
    ELSE [i \in 1..Len(Head(root).middlewares) |-> Head(root).middlewares[i].handler]
             \o RootHandlers(Tail(root))

RECURSIVE GroupMiddlewares(_, _, _, _)
\* for _, m := range group.middlewares
GroupMiddlewares(acc, ms, fm, group) ==
    IF ms = <<>> THEN acc
    ELSE LET m == Head(ms)
             next == IF m \in DOMAIN fm
                     THEN [acc EXCEPT !.handleStack = Append(@, fm[m].handler)]
                     ELSE [acc EXCEPT !.log = Append(@,
                              LogRecord("warn", WarnGroupMiddleware,
                                        <<>>, m, group, <<>>))]
         IN  GroupMiddlewares(next, Tail(ms), fm, group)

NestedMiddlewaresSkipped(acc, ms, fm, path, parent) == acc

RECURSIVE NestedMiddlewaresTwoLevels(_, _, _, _, _)
\* The loop over mw.middlewares that also applies what a nested middleware
\* lists itself.
NestedMiddlewaresTwoLevels(acc, ms, fm, path, parent) ==
    IF ms = <<>> THEN acc
    ELSE LET m == Head(ms)
             next == IF m \in DOMAIN fm
                     THEN LET known == SelectSeq(fm[m].middlewares, LAMBDA n : n \in DOMAIN fm)
                          IN  [acc EXCEPT !.handleStack =
                                  Append(@ \o [i \in 1..Len(known) |-> fm[known[i]].handler],
                                         fm[m].handler)]
                     ELSE [acc EXCEPT !.log = Append(@,
                              LogRecord("warn", WarnNestedMiddleware,
                                        path, m, parent, <<>>))]
         IN  NestedMiddlewaresTwoLevels(next, Tail(ms), fm, path, parent)

RECURSIVE NestedMiddlewares(_, _, _, _, _)
\* for _, m := range mw.middlewares
NestedMiddlewares(acc, ms, fm, path, parent) ==
    IF ms = <<>> THEN acc
    ELSE LET m == Head(ms)
             next == IF m \in DOMAIN fm
                     THEN [acc EXCEPT !.handleStack = Append(@, fm[m].handler)]
                     ELSE [acc EXCEPT !.log = Append(@,
                              LogRecord("warn", WarnNestedMiddleware,
                                        path, m, parent, <<>>))]
         IN  NestedMiddlewares(next, Tail(ms), fm, path, parent)

RECURSIVE RouteMiddlewaresNestedAfter(_, _, _, _)
\* The loop over route.middlewares with each middleware put before its
\* nested ones.
RouteMiddlewaresNestedAfter(acc, ms, fm, path) ==
    IF ms = <<>> THEN acc
    ELSE LET middleware == Head(ms)
             next ==
                IF middleware \in DOMAIN fm
                THEN LET mw == fm[middleware]
                         applied == [acc EXCEPT !.appliedMiddlewares = Append(@, mw.middleware),
                                                !.handleStack = Append(@, mw.handler)]
                     IN  NestedMiddlewares(applied, mw.middlewares, fm, path, mw.middleware)
                ELSE [acc EXCEPT !.log = Append(@,
                         LogRecord("warn", WarnRouteMiddleware,
                                   path, middleware, "", <<>>))]
         IN  RouteMiddlewaresNestedAfter(next, Tail(ms), fm, path)

RECURSIVE RouteMiddlewaresAppliedAll(_, _, _, _)
\* The loop over route.middlewares with every name, found or not, put in
\* appliedMiddlewares.
RouteMiddlewaresAppliedAll(acc, ms, fm, path) ==
    IF ms = <<>> THEN acc
    ELSE LET middleware == Head(ms)
             next ==
                IF middleware \in DOMAIN fm
                THEN LET mw == fm[middleware]
                         applied == [acc EXCEPT !.appliedMiddlewares = Append(@, mw.middleware)]
                         nested == NestedMiddlewares(applied, mw.middlewares, fm, path, mw.middleware)
                     IN  [nested EXCEPT !.handleStack = Append(@, mw.handler)]
                ELSE [acc EXCEPT !.appliedMiddlewares = Append(@, middleware),
                                 !.log = Append(@,
                                     LogRecord("warn", WarnRouteMiddleware,
                                               path, middleware, "", <<>>))]
         IN  RouteMiddlewaresAppliedAll(next, Tail(ms), fm, path)

RECURSIVE RouteMiddlewares(_, _, _, _)
\* for _, middleware := range route.middlewares
RouteMiddlewares(acc, ms, fm, path) ==
    IF ms = <<>> THEN acc
    ELSE LET middleware == Head(ms)
             next ==
                IF middleware \in DOMAIN fm
                THEN LET mw == fm[middleware]
                         applied == [acc EXCEPT !.appliedMiddlewares = Append(@, mw.middleware)]
                         nested == NestedMiddlewares(applied, mw.middlewares, fm, path, mw.middleware)
                     IN  [nested EXCEPT !.handleStack = Append(@, mw.handler)]
                ELSE [acc EXCEPT !.log = Append(@,
                         LogRecord("warn", WarnRouteMiddleware,
                                   path, middleware, "", <<>>))]
         IN  RouteMiddlewares(next, Tail(ms), fm, path)


GroupPathKeepSlashes(group, path) == group.Path \o <<"/">> \o path

\* path = strings.TrimSuffix(group.Path, "/") + "/" + strings.TrimPrefix(path, "/")
GroupPath(group, path) == TrimSuffix(group.Path, "/") \o <<"/">> \o TrimPrefix(path, "/")

GroupNotFoundSilent(acc, route) == acc

\* c.log.Warn(WarnGroupNotFound, ...)
GroupNotFound(acc, route) ==
    [acc EXCEPT !.log = Append(@,
        LogRecord("warn", WarnGroupNotFound,
                  route.path, route.group, "", <<>>))]

\* The body of applyHandlers' loop up to the registration: the path and acc.
ApplyRoute(route, root, fg, fm) ==
    LET rootAcc == [handleStack |-> RootHandlers(root), log |-> <<>>,
                    appliedMiddlewares |-> <<>>]
        ok == route.group # "" /\ route.group \in DOMAIN fg
        path == IF ok THEN GroupPath(fg[route.group], route.path) ELSE route.path
        groupAcc == IF route.group = "" THEN rootAcc
                    ELSE IF ok
                         THEN GroupMiddlewares(rootAcc, fg[route.group].middlewares, fm, route.group)
                         ELSE GroupNotFound(rootAcc, route)
        routeAcc == RouteMiddlewares(groupAcc, route.middlewares, fm, path)
    IN  [path |-> path,
         handleStack |-> Append(routeAcc.handleStack, route.handler),
         log |-> routeAcc.log,
         appliedMiddlewares |-> routeAcc.appliedMiddlewares]

ApplyHandlersStep ==
    /\ cpc = "applyHandlers"
    /\ ci <= Len(flatRoutes)
    /\ LET route == flatRoutes[ci]
           a == ApplyRoute(route, rootMiddlewares, flatGroups, flatMiddlewares)
       IN  /\ ginRoutes' = Append(ginRoutes,
                  [call |-> IF route.method = "ANY" THEN "Any" ELSE "Handle",
                   method |-> route.method, path |-> a.path, handlers |-> a.handleStack])
           /\ log' = (log \o a.log) \o
                  <<LogRecord("info", InfoRegistered, a.path, route.method, "",
                              a.appliedMiddlewares)>>
    /\ ci' = ci + 1
    /\ UNCHANGED <<handlers, rootMiddlewares, flatRoutes, flatGroups, flatMiddlewares,
                   cpc, tvars, mvars, rvars, xvars>>

\* applyHandlers is over; New returns the engine.
NewReturn ==
    /\ cpc = "applyHandlers"
    /\ ci > Len(flatRoutes)
    /\ cpc' = "returned"
    /\ UNCHANGED <<handlers, rootMiddlewares, flatRoutes, flatGroups, flatMiddlewares,
                   ginRoutes, log, ci, tvars, mvars, rvars, xvars>>

\* New(handlers, WithRootMiddlewares(...)) is called.
InitCompose ==
    /\ TrackerInit /\ NoRequests /\ NoRun /\ NoDiscover /\ NoCasual
    /\ handlers \in HandlerLists
    /\ rootMiddlewares \in RootDecls
    /\ flatRoutes = <<>>
    /\ flatGroups = <<>>
    /\ flatMiddlewares = <<>>
    /\ ginRoutes = <<>>
    /\ log = <<>>
    /\ cpc = "flatHandlers"
    /\ ci = 1

ComposeNext ==
    \/ FlatHandlersStep
    \/ ApplyHandlersStep
    \/ NewReturn

SpecCompose == InitCompose /\ [][ComposeNext]_vars


(***************************************************************************)
(* What a chain is expected to hold, written from the flat tables.         *)
(***************************************************************************)
RECURSIVE Concat(_)
Concat(ss) == IF ss = <<>> THEN <<>> ELSE Head(ss) \o Concat(Tail(ss))

\* The names of a list that the merged middleware table knows, in order.
Resolved(names) == SelectSeq(names, LAMBDA n : n \in DOMAIN flatMiddlewares)

HandlersOf(names) == [i \in 1..Len(names) |-> flatMiddlewares[names[i]].handler]

ExpectedRoot ==
    Concat([i \in 1..Len(rootMiddlewares) |->
              [j \in 1..Len(rootMiddlewares[i].middlewares) |->
                  rootMiddlewares[i].middlewares[j].handler]])

GroupResolves(route) == route.group # "" /\ route.group \in DOMAIN flatGroups

ExpectedGroup(route) ==
    IF GroupResolves(route)
    THEN HandlersOf(Resolved(flatGroups[route.group].middlewares))
    ELSE <<>>

\* The route's own resolved middlewares, nothing else.
ExpectedRoutePlain(route) == HandlersOf(Resolved(route.middlewares))

\* The route's own resolved middlewares, each after its resolved nested ones.
ExpectedRouteExpanded(route) ==
    LET own == Resolved(route.middlewares)
    IN  Concat([i \in 1..Len(own) |->
                  HandlersOf(Resolved(flatMiddlewares[own[i]].middlewares))
                      \o <<flatMiddlewares[own[i]].handler>>])

\* root=[R], group=[b], route=[c], no nested references.
PlainExample(route) ==
    /\ ExpectedRoot = <<HandlerFunc("middleware", "R")>>
    /\ GroupResolves(route)
    /\ flatGroups[route.group].middlewares = <<"b">>
    /\ route.middlewares = <<"c">>
    /\ {"b", "c"} \subseteq DOMAIN flatMiddlewares
    /\ flatMiddlewares["b"].middlewares = <<>>
    /\ flatMiddlewares["c"].middlewares = <<>>

PlainExampleChain(route) ==
    <<HandlerFunc("middleware", "R"), HandlerFunc("middleware", "B"),
      HandlerFunc("middleware", "C"), route.handler>>

\* C8 (as stated): every registered chain is the root middlewares, then the
\* group's resolved middlewares, then the route's own resolved middlewares,
\* then the handler, and nothing else; root=[R], group=[b], route=[c] without
\* nested references gives [R, B, C, handler].
C8_ChainAsStated ==
    \A k \in 1..Len(ginRoutes) :
        LET route == flatRoutes[k]
        IN  /\ ginRoutes[k].handlers =
                  ExpectedRoot \o ExpectedGroup(route) \o ExpectedRoutePlain(route)
                      \o <<route.handler>>
            /\ PlainExample(route) => ginRoutes[k].handlers = PlainExampleChain(route)

\* C8 (amended): every registered chain is the root middlewares in configured
\* order, then the group's resolved middlewares in declared order, then the
\* route's own resolved middlewares in declared order, each immediately
\* preceded by its own resolved nested middlewares in declared order, then
\* the handler as last element; without nested references root=[R],
\* group=[b], route=[c] gives exactly [R, B, C, handler].
C8_ChainOrder ==
    \A k \in 1..Len(ginRoutes) :
        LET route == flatRoutes[k]
        IN  /\ ginRoutes[k].handlers =
                  ExpectedRoot \o ExpectedGroup(route) \o ExpectedRouteExpanded(route)
                      \o <<route.handler>>
            /\ PlainExample(route) => ginRoutes[k].handlers = PlainExampleChain(route)

\* A registered route with root, group and own middlewares, one of its own
\* middlewares bringing nested ones.
C8_Witness ==
    /\ cpc = "returned"
    /\ \E k \in 1..Len(ginRoutes) :
          LET route == flatRoutes[k]
          IN  /\ Len(ExpectedRoot) > 1
              /\ Len(ExpectedGroup(route)) > 0
              /\ Len(ExpectedRoutePlain(route)) > 1
              /\ Len(ExpectedRouteExpanded(route)) > Len(ExpectedRoutePlain(route))


\* t is s with one trailing "/" removed, if s has one.
StrippedBack(s, t) ==
    \/ s = t \o <<"/">>
    \/ t = s /\ (s = <<>> \/ s[Len(s)] # "/")

\* t is s with one leading "/" removed, if s has one.
StrippedFront(s, t) ==
    \/ s = <<"/">> \o t
    \/ t = s /\ (s = <<>> \/ s[1] # "/")

\* C9: a route whose group resolves is registered under the group path less
\* one trailing slash, then "/", then its own path less one leading slash; a
\* route with no group or an unresolved one under its own path unchanged.
\* "/a/" + "/p" and "/a" + "p" both give "/a/p", and "/p" in group "/a" is
\* registered at "/a/p", not at "/p".
C9_GroupPathJoin ==
    \A k \in 1..Len(ginRoutes) :
        LET route == flatRoutes[k]
            p == ginRoutes[k].path
        IN  IF GroupResolves(route)
            THEN LET gp == flatGroups[route.group].Path
                 IN  /\ \E n \in 0..(Len(p) - 1) :
                           /\ p[n + 1] = "/"
                           /\ StrippedBack(gp, SubSeq(p, 1, n))
                           /\ StrippedFront(route.path, SubSeq(p, n + 2, Len(p)))
                     /\ (gp = <<"/", "a", "/">> /\ route.path = <<"/", "p">>)
                            => p = <<"/", "a", "/", "p">>
                     /\ (gp = <<"/", "a">> /\ route.path = <<"p">>)
                            => p = <<"/", "a", "/", "p">>
                     /\ (gp = <<"/", "a">> /\ route.path = <<"/", "p">>)
                            => (p = <<"/", "a", "/", "p">> /\ p # route.path)
            ELSE p = route.path

\* A route "/p" of a group "/a/" is registered at "/a/p", and a route without
\* a group at its own path.
C9_Witness ==
    /\ cpc = "returned"
    /\ \E k \in 1..Len(ginRoutes) :
          /\ GroupResolves(flatRoutes[k])
          /\ flatGroups[flatRoutes[k].group].Path = <<"/", "a", "/">>
          /\ flatRoutes[k].path = <<"/", "p">>
          /\ ginRoutes[k].path = <<"/", "a", "/", "p">>
    /\ \E k \in 1..Len(ginRoutes) :
          /\ flatRoutes[k].group = ""
          /\ ginRoutes[k].path = flatRoutes[k].path

\* Some handler given to New declares a group of this name.
Declared(name) ==
    \E i \in 1..Len(handlers) :
        \E j \in 1..Len(handlers[i].groups) : handlers[i].groups[j].name = name

\* The log records written while route k was applied: those that follow the
\* (k-1)th "route was registered" record and precede the kth.
WarningsOf(k) ==
    {i \in 1..Len(log) :
        /\ log[i].level = "warn"
        /\ Cardinality({j \in 1..i : log[j].level = "info"}) = k - 1}

\* C10: a route whose group tag names a group no handler declares is still
\* registered, under its own path, with no group middleware in its chain,
\* and exactly one warning is logged for its unresolved group.
C10_UnresolvedGroup ==
    /\ cpc = "returned" => Len(ginRoutes) = Len(flatRoutes)
    /\ \A k \in 1..Len(ginRoutes) :
          LET route == flatRoutes[k]
          IN  (route.group # "" /\ ~Declared(route.group)) =>
                  /\ ginRoutes[k].method = route.method
                  /\ ginRoutes[k].path = route.path
                  /\ ginRoutes[k].handlers =
                         ExpectedRoot \o ExpectedRouteExpanded(route) \o <<route.handler>>
                  /\ Cardinality({i \in WarningsOf(k) : log[i].msg = WarnGroupNotFound}) = 1
                  /\ \A i \in WarningsOf(k) :
                         /\ log[i].msg # WarnGroupMiddleware
                         /\ log[i].msg = WarnGroupNotFound =>
                                (log[i].name = route.group /\ log[i].path = route.path)

\* New returned after registering a route of an undeclared group, one of
\* whose own middlewares is skipped as well.
C10_Witness ==
    /\ cpc = "returned"
    /\ \E k \in 1..Len(ginRoutes) :
          /\ flatRoutes[k].group = "g"
          /\ ~Declared("g")
          /\ Cardinality(WarningsOf(k)) = 2
          /\ ginRoutes[k].path = flatRoutes[k].path


\* The names of a list that the merged middleware table does not know.
Unresolved(names) == SelectSeq(names, LAMBDA n : n \notin DOMAIN flatMiddlewares)

\* The nested lists of the resolved middlewares of a list, one after the other.
NestedOf(names) ==
    LET known == Resolved(names)
    IN  Concat([i \in 1..Len(known) |-> flatMiddlewares[known[i]].middlewares])

\* The group middlewares list that composing the route consults.
GroupListOf(route) ==
    IF GroupResolves(route) THEN flatGroups[route.group].middlewares ELSE <<>>

\* Number of records with this message logged while route k was applied.
WarnCount(k, msg) == Cardinality({i \in WarningsOf(k) : log[i].msg = msg})

\* C11: a name in a route's list, in its group's list or in the nested list
\* of one of their middlewares that the merged table does not know never
\* stops composition: one warning is logged for it, the step is left out,
\* and the route is registered with its other resolved steps in order and
\* the handler last.
C11_UnresolvedMiddlewareSkipped ==
    /\ cpc = "returned" => Len(ginRoutes) = Len(flatRoutes)
    /\ \A k \in 1..Len(ginRoutes) :
          LET route == flatRoutes[k]
          IN  /\ ginRoutes[k].handlers =
                     ExpectedRoot \o ExpectedGroup(route) \o ExpectedRouteExpanded(route)
                         \o <<route.handler>>
              /\ WarnCount(k, WarnRouteMiddleware) = Len(Unresolved(route.middlewares))
              /\ WarnCount(k, WarnGroupMiddleware) = Len(Unresolved(GroupListOf(route)))
              /\ WarnCount(k, WarnNestedMiddleware) =
                     Len(Unresolved(NestedOf(route.middlewares)))
                         + Len(Unresolved(NestedOf(GroupListOf(route))))


(***************************************************************************)
(* AsHandler (src/unnamed/part_005): searchForGroups, searchForMiddlewares *)
(* and searchForRoutes over the flattened fields of a handler struct.      *)
(* A tag or a field name that the code takes apart is a sequence of        *)
(* one-character strings.                                                  *)
(***************************************************************************)
UpperLetters == <<"A", "B", "C", "D", "E", "F", "G", "H", "I", "J", "K", "L", "M",
                  "N", "O", "P", "Q", "R", "S", "T", "U", "V", "W", "X", "Y", "Z">>

LowerLetters == <<"a", "b", "c", "d", "e", "f", "g", "h", "i", "j", "k", "l", "m",
                  "n", "o", "p", "q", "r", "s", "t", "u", "v", "w", "x", "y", "z">>

Digits == {"0", "1", "2", "3", "4", "5", "6", "7", "8", "9"}

Range(f) == {f[i] : i \in DOMAIN f}

\* [A-Z] under (?i)
IsLetter(c) == c \in Range(UpperLetters) \cup Range(LowerLetters)

\* strings.ToLower, one character
LowerChar(c) ==
    IF c \in Range(UpperLetters)
    THEN LowerLetters[CHOOSE i \in DOMAIN UpperLetters : UpperLetters[i] = c]
    ELSE c

\* {3,10} of the route tag's regular expression
MethodMin == 3

MethodMax == 10

\* Length of the longest prefix of s made of letters.
LetterPrefix(s) ==
    IF \A i \in 1..Len(s) : IsLetter(s[i]) THEN Len(s)
    ELSE (CHOOSE i \in 1..Len(s) : ~IsLetter(s[i]) /\ \A j \in 1..(i - 1) : IsLetter(s[j])) - 1

\* The error of parseRouteTag.
ErrInvalidRouteTag == "invalid route tag"

\* (?i)^([A-Z]{3,10}) (.*)$ : the method is the letters up to the first
\* character that is no letter, which must be a space; the path is the rest,
\* which may be empty and holds no line feed.
parseRouteTag(tag) ==
    LET n == LetterPrefix(tag)
    IN  IF /\ n >= MethodMin
           /\ n <= MethodMax
           /\ Len(tag) > n
           /\ tag[n + 1] = " "
           /\ \A i \in (n + 2)..Len(tag) : tag[i] # "\n"
        THEN [method |-> SubSeq(tag, 1, n), path |-> SubSeq(tag, n + 2, Len(tag)),
              err |-> <<>>]
        ELSE [method |-> <<>>, path |-> <<>>, err |-> <<ErrInvalidRouteTag>>]

\* parseGroupTag keeps the ASCII letters, digits and "_" of the field name
\* and lowercases them; the tag value is the path.
GroupNameOf(field) ==
    LET kept == SelectSeq(field, LAMBDA c : IsLetter(c) \/ c \in Digits \/ c = "_")
    IN  [i \in 1..Len(kept) |-> LowerChar(kept[i])]

\* strings.TrimSpace on one piece of a middlewares tag.
TrimSpace(v) == CASE v = " " -> "" [] v = " a" -> "a" [] v = "A " -> "A" [] OTHER -> v

\* parseMiddlewaresTag over the pieces strings.Split(tag, ",") gives.
parseMiddlewaresTag(pieces) ==
    LET trimmed == [i \in 1..Len(pieces) |-> TrimSpace(pieces[i])]
        kept == SelectSeq(trimmed, LAMBDA v : v # "")
    IN  [i \in 1..Len(kept) |-> ToLower(kept[i])]

\* The Go string that a sequence of characters spells.
Str(s) ==
    CASE s = <<>> -> ""
      [] s = <<"v", "3">> -> "v3"
      [] s = <<"V", "3">> -> "V3"
      [] s = <<"a">> -> "a"
      [] s = <<"A">> -> "A"
      [] s = <<"R", "1">> -> "R1"
      [] s = <<"R", "2">> -> "R2"
      [] s = <<"v", "_", "3">> -> "v_3"
      [] s = <<"G", "E", "T">> -> "GET"
      [] s = <<"g", "e", "t">> -> "get"
      [] s = <<"A", "N", "Y">> -> "ANY"
      [] s = <<"P", "o", "s", "t">> -> "Post"
      [] s = <<"O", "P", "T", "I", "O", "N", "S", "X", "Y", "Z">> -> "OPTIONSXYZ"


(***************************************************************************)
(* The handler structs.  A field is its type, its name, its four tags and  *)
(* the kind of the method that bears its name ("gin": a gin handler func,  *)
(* "casual": a casual handler, "none": no such method).  An absent tag is  *)
(* the empty string, as reflect.StructTag.Get gives it.                    *)
(***************************************************************************)
Field(type, name, route, group, middleware, pieces, method) ==
    [type |-> type, name |-> name, route |-> route, group |-> group,
     middleware |-> middleware, middlewares |-> pieces, method |-> method]

MethodTokens ==
    {<<>>, <<"G", "E">>, <<"G", "E", "T">>, <<"g", "e", "t">>, <<"P", "o", "s", "t">>,
     <<"G", "3", "T">>, <<"O", "P", "T", "I", "O", "N", "S", "X", "Y", "Z">>,
     <<"O", "P", "T", "I", "O", "N", "S", "X", "Y", "Z", "W">>}

TagPaths == {<<>>, <<"/", "p">>, <<"/", "p", " ", "q">>, <<"/", "p", "\n">>}

RouteTags == {m \o sep \o p : m \in MethodTokens, sep \in {<<>>, <<" ">>}, p \in TagPaths}

GroupFields ==
    {<<>>, <<Field("Group", <<"V", "3">>, <<>>, <<>>, <<>>, <<"">>, "none")>>}
        \cup {<<Field("Group", n, <<>>, <<"/", "a">>, <<>>, <<" a">>, "none")>> :
                 n \in {<<"V", "3">>, <<"V", "_", "3">>, <<"V", "é", "3">>}}

MiddlewareFields ==
    {<<>>} \cup {<<Field("Middleware", <<"A">>, <<>>, <<>>, <<>>, <<"">>, k)>> :
                    k \in {"gin", "casual", "none"}}

FirstRouteFields ==
    {<<Field("Route", <<"R", "1">>, t, g, <<>>, <<"A ", "", "x">>, "gin")>> :
        t \in RouteTags, g \in {<<>>, <<"v", "3">>, <<"V", "3">>}}
        \cup {<<Field("Route", <<"R", "1">>, t, <<>>, <<>>, <<"A ", "", "x">>, k)>> :
                 t \in RouteTags, k \in {"casual", "none"}}

SecondRouteFields ==
    {<<>>,
     <<Field("Route", <<"R", "2">>, <<"A", "N", "Y", " ", "/", "q">>, <<>>, <<>>, <<"">>, "gin")>>,
     <<Field("Route", <<"R", "2">>, <<"G", "E", " ", "/", "q">>, <<>>, <<>>, <<"">>, "gin")>>,
     <<Field("Route", <<"R", "2">>, <<"G", "E", " ", "/", "q">>, <<>>, <<>>, <<"">>, "none")>>}

Structs ==
    {g \o m \o r1 \o r2 : g \in GroupFields, m \in MiddlewareFields,
                          r1 \in FirstRouteFields, r2 \in SecondRouteFields}

RECURSIVE GroupsOf(_)
\* searchForGroups: the Group fields with a group tag, in field order.
GroupsOf(fields) ==
    IF fields = <<>> THEN <<>>
    ELSE LET f == Head(fields)
             found == IF f.type = "Group" /\ f.group # <<>>
                      THEN <<Gr(Str(GroupNameOf(f.name)), f.group,
                                IF f.middlewares # <<"">>
                                THEN parseMiddlewaresTag(f.middlewares) ELSE <<>>)>>
                      ELSE <<>>
         IN  found \o GroupsOf(Tail(fields))

RECURSIVE MiddlewaresOfAnyField(_)
\* searchForMiddlewares without the test of foundHandlers[fieldType.Name].
MiddlewaresOfAnyField(fields) ==
    IF fields = <<>> THEN <<>>
    ELSE LET f == Head(fields)
             name == IF f.middleware = <<>> THEN f.name ELSE f.middleware
             found == IF f.type = "Middleware"
                      THEN <<Mw(ToLower(Str(name)), parseMiddlewaresTag(f.middlewares),
                                Str(f.name))>>
                      ELSE <<>>
         IN  found \o MiddlewaresOfAnyField(Tail(fields))

RECURSIVE MiddlewaresOf(_)
\* searchForMiddlewares: the Middleware fields that have a gin method.
MiddlewaresOf(fields) ==
    IF fields = <<>> THEN <<>>
    ELSE LET f == Head(fields)
             name == IF f.middleware = <<>> THEN f.name ELSE f.middleware
             found == IF f.type = "Middleware" /\ f.method = "gin"
                      THEN <<Mw(ToLower(Str(name)), parseMiddlewaresTag(f.middlewares),
                                Str(f.name))>>
                      ELSE <<>>
         IN  found \o MiddlewaresOf(Tail(fields))


ParseFailedSwallowed(acc, r) == acc

\* return fmt.Errorf("failed to parse route tag: %w", err)
ParseFailed(acc, r) == [acc EXCEPT !.err = <<"failed to parse route tag">> \o r.err]

RECURSIVE RoutesOf(_, _)
\* searchForRoutes' loop; acc = [routes, casualRoutes, err, parsed].  A Route
\* field is looked at only when a method bears its name; the first tag that
\* does not parse ends the loop.
RoutesOf(acc, fields) ==
    IF fields = <<>> \/ acc.err # <<>> THEN acc
    ELSE LET f == Head(fields)
             r == parseRouteTag(f.route)
             seen == [acc EXCEPT !.parsed = Append(@, [tag |-> f.route, result |-> r])]
             next ==
                IF f.type # "Route" \/ f.method = "none" THEN acc
                ELSE IF r.err # <<>> THEN ParseFailed(seen, r)
                ELSE IF f.method = "gin"
                     THEN [seen EXCEPT !.routes = Append(@,
                              Rt(Str(r.method), r.path, Str(f.group),
                                 parseMiddlewaresTag(f.middlewares), Str(f.name)))]
                     ELSE [seen EXCEPT !.casualRoutes = Append(@,
                              CasualRt(Str(r.method), r.path, Str(f.group),
                                       parseMiddlewaresTag(f.middlewares), Str(f.name)))]
         IN  RoutesOf(next, Tail(fields))

\* err := handler.searchForGroups(flatFields); parseGroupTag never fails.
SearchForGroups ==
    /\ apc = "searchForGroups"
    /\ hnd' = [hnd EXCEPT !.groups = GroupsOf(hstruct.fields)]
    /\ apc' = "searchForMiddlewares"
    /\ UNCHANGED <<hstruct, aret, parsed, tvars, mvars, rvars, cvars, qvars>>

\* handler.searchForMiddlewares(flatFields, ginHandlers)
SearchForMiddlewares ==
    /\ apc = "searchForMiddlewares"
    /\ hnd' = [hnd EXCEPT !.middlewares = MiddlewaresOf(hstruct.fields)]
    /\ apc' = "searchForRoutes"
    /\ UNCHANGED <<hstruct, aret, parsed, tvars, mvars, rvars, cvars, qvars>>

\* err = handler.searchForRoutes(...) and AsHandler's return.
SearchForRoutes ==
    /\ apc = "searchForRoutes"
    /\ LET acc == RoutesOf([routes |-> <<>>, casualRoutes |-> <<>>, err |-> <<>>,
                            parsed |-> <<>>], hstruct.fields)
       IN  /\ parsed' = acc.parsed
           /\ IF acc.err # <<>>
              THEN /\ hnd' = hnd
                   /\ aret' = [handler |-> <<>>,
                               err |-> <<"failed to search for routes">> \o acc.err]
              ELSE /\ hnd' = [hnd EXCEPT !.routes = acc.routes,
                                         !.casualRoutes = acc.casualRoutes]
                   /\ aret' = [handler |-> <<hnd'>>, err |-> <<>>]
    /\ apc' = "returned"
    /\ UNCHANGED <<hstruct, tvars, mvars, rvars, cvars, qvars>>

\* engine, err := New([]*Handler{handler}) with the handler AsHandler gave.
NewCall ==
    /\ apc = "returned"
    /\ aret.err = <<>>
    /\ cpc = "idle"
    /\ handlers' = aret.handler
    /\ cpc' = "flatHandlers"
    /\ ci' = 1
    /\ UNCHANGED <<rootMiddlewares, flatRoutes, flatGroups, flatMiddlewares, ginRoutes,
                   log, tvars, mvars, rvars, xvars>>

\* AsHandler(&struct) is called.
InitDiscover ==
    /\ TrackerInit /\ NoRequests /\ NoRun /\ NoCompose /\ NoCasual
    /\ hstruct \in {[fields |-> fs] : fs \in Structs}
    /\ apc = "searchForGroups"
    /\ hnd = EmptyHandler
    /\ aret = [handler |-> <<>>, err |-> <<>>]
    /\ parsed = <<>>

DiscoverNext ==
    \/ SearchForGroups
    \/ SearchForMiddlewares
    \/ SearchForRoutes
    \/ NewCall
    \/ FlatHandlersStep
    \/ ApplyHandlersStep
    \/ NewReturn

SpecDiscover == InitDiscover /\ [][DiscoverNext]_vars


\* The Route fields of the struct whose tag parseRouteTag rejects.
MalformedRouteFields ==
    {i \in 1..Len(hstruct.fields) :
        /\ hstruct.fields[i].type = "Route"
        /\ parseRouteTag(hstruct.fields[i].route).err # <<>>}

\* AsHandler returned no Handler and the parse error, wrapped twice.
FailedOnRouteTag ==
    /\ aret.handler = <<>>
    /\ aret.err = <<"failed to search for routes", "failed to parse route tag",
                    ErrInvalidRouteTag>>
    /\ cpc = "idle"

\* C12 (as stated): a malformed route tag on any Route field makes AsHandler
\* return a wrapped error and no Handler.
C12_MalformedTagFatalAsStated ==
    (apc = "returned" /\ MalformedRouteFields # {}) => FailedOnRouteTag

\* C12 (amended): a malformed route tag on a Route field that has a handler
\* method of its name (gin or casual) makes AsHandler return a wrapped error
\* and no Handler, never a partially built one; the tag of a Route field
\* without such a method is not parsed and stops nothing.
C12_MalformedTagFatal ==
    apc = "returned" =>
        /\ (\E i \in MalformedRouteFields : hstruct.fields[i].method # "none")
               => FailedOnRouteTag
        /\ (\A i \in MalformedRouteFields : hstruct.fields[i].method = "none")
               => (aret.err = <<>> /\ Len(aret.handler) = 1)

\* AsHandler failed on the second Route field after the first one parsed.
C12_Witness ==
    /\ apc = "returned"
    /\ FailedOnRouteTag
    /\ Len(parsed) = 2
    /\ parsed[1].result.err = <<>>
    /\ parsed[2].result.err = <<ErrInvalidRouteTag>>


\* The tag matches ^[A-Z]{3,10} .+$ case-insensitively.
MatchesRouteTag(tag) ==
    \E n \in 3..10 :
        /\ Len(tag) >= n + 2
        /\ \A i \in 1..n : IsLetter(tag[i])
        /\ tag[n + 1] = " "
        /\ \A i \in (n + 2)..Len(tag) : tag[i] # "\n"

\* The position of the first space of a tag that has one.
FirstSpace(tag) == CHOOSE i \in 1..Len(tag) : tag[i] = " " /\ \A j \in 1..(i - 1) : tag[j] # " "

\* C13: parseRouteTag succeeds exactly on the tags that match
\* ^[A-Z]{3,10} .+$ case-insensitively, returning the method token verbatim
\* and everything after the first space as the path; on every other tag
\* (no space, a method token too short, too long or with a non-letter, an
\* empty path) it fails with "invalid route tag".
C13_ParseRouteTag ==
    \A k \in 1..Len(parsed) :
        LET tag == parsed[k].tag
            r == parsed[k].result
        IN  IF MatchesRouteTag(tag)
            THEN /\ r.err = <<>>
                 /\ r.method = SubSeq(tag, 1, FirstSpace(tag) - 1)
                 /\ r.path = SubSeq(tag, FirstSpace(tag) + 1, Len(tag))
            ELSE r.err = <<"invalid route tag">>


\* The name searchForGroups gave the group of the struct's Group field.
DerivedName(field) ==
    IF \E i \in 1..Len(hstruct.fields) :
           /\ hstruct.fields[i].type = "Group"
           /\ hstruct.fields[i].name = field
           /\ hstruct.fields[i].group # <<>>
    THEN {hnd.groups[j].name : j \in 1..Len(hnd.groups)}
    ELSE {}

\* C14: a group's name is its field name less every character that is no
\* ASCII letter, digit or underscore, lowercased ("V3" gives "v3", "V_3"
\* "v_3"), and a route's group tag names the group whatever its case: a
\* route tagged "V3" or "v3" is registered under the path of group "v3".
C14_GroupNameCaseInsensitive ==
    /\ apc \notin {"idle", "searchForGroups"} =>
          /\ DerivedName(<<"V", "3">>) \subseteq {"v3"}
          /\ DerivedName(<<"V", "_", "3">>) \subseteq {"v_3"}
          /\ DerivedName(<<"V", "é", "3">>) \subseteq {"v3"}
    /\ \A k \in 1..Len(ginRoutes) :
          LET route == flatRoutes[k]
              p == ginRoutes[k].path
          IN  (route.group # "" /\ ToLower(route.group) \in DOMAIN flatGroups) =>
                  /\ WarnCount(k, WarnGroupNotFound) = 0
                  /\ \E n \in 0..(Len(p) - 1) :
                        /\ p[n + 1] = "/"
                        /\ StrippedBack(flatGroups[ToLower(route.group)].Path, SubSeq(p, 1, n))
                        /\ StrippedFront(route.path, SubSeq(p, n + 2, Len(p)))


(***************************************************************************)
(* The casual adapter (src/casual.go, cb in flatHandlers) and the          *)
(* response builders of package casual.                                    *)
(***************************************************************************)

\* Largest slice or array a typed handler returns.
MaxLen == 2

\* What a typed handler returns as its first result: a value of the declared
\* response type.  kind is the reflect.Kind of the type ("Ptr" a pointer to a
\* struct), isNil whether the value is nil, len its length; statusCode is
\* what the StatusCode method of the type returns (0: the type has none),
\* meta the map its Meta method returns (<<>>: the type has none), nilSafe
\* whether the methods of the type return when the receiver is nil (a value
\* receiver makes reflect panic on a nil pointer).
DataValue(kind, isNil, len, statusCode, meta, nilSafe) ==
    [kind |-> kind, isNil |-> isNil, len |-> len, statusCode |-> statusCode,
     meta |-> meta, nilSafe |-> nilSafe]

MetaNoTotal == [k \in {"page"} |-> 1]
MetaWithTotal == [k \in {"page", "total"} |-> IF k = "page" THEN 1 ELSE 7]

DataValues ==
    {DataValue("Ptr", n, 0, sc, <<>>, safe) :
        n \in BOOLEAN, sc \in {0, 201}, safe \in BOOLEAN}
    \cup {DataValue("Slice", FALSE, l, 0, m, TRUE) :
              l \in 0..MaxLen, m \in {<<>>, <<MetaNoTotal>>, <<MetaWithTotal>>}}
    \cup {DataValue("Slice", TRUE, 0, 0, <<>>, TRUE),
          DataValue("Array", FALSE, MaxLen, 0, <<>>, TRUE)}

\* What ctx.ShouldBind returns when it fails: a decoding error or the
\* validator's list of failed fields.
BindErrors ==
    {PlainError("unexpected EOF"),
     ValidationErrors(<<[Field |-> "Name", Tag |-> "required"]>>),
     ValidationErrors(<<[Field |-> "Name", Tag |-> "required"],
                        [Field |-> "Link", Tag |-> "uri"]>>)}

\* What a typed handler returns as its error.
HandlerErrors ==
    {PlainError("boom"),
     NewHTTPErrorFromMessage(404, "not found"),
     NewHTTPErrorFromError(409, PlainError("conflict")),
     WrapError(NewHTTPErrorFromMessage(404, "not found")),
     WrapError(PlainError("boom")),
     ValidationErrors(<<[Field |-> "Link", Tag |-> "url"]>>),
     WrapError(ValidationErrors(<<[Field |-> "Name", Tag |-> "notempty"]>>))}

\* An error result: <<>> is nil.
ErrorResults == {<<>>} \cup {<<e>> : e \in HandlerErrors}

\* rm.Func.Call: the results of a typed handler of this arity.
Results(arity) ==
    IF arity = 1
    THEN {<<e>> : e \in ErrorResults}
    ELSE {<<d, e>> : d \in DataValues, e \in ErrorResults}

\* The type argument New gives the default responder:
\* c.casualResponseHandler = defaultCasualResponder[any].
ResponderType == "any"

\* reflect.ValueOf(data).Elem().Kind() in NewHTTPResponse[T](data): data is a
\* *T, so the element has the kind of T, and T = any gives reflect.Interface
\* whatever the value inside is.
ElemKind(T, data) == IF T = "any" THEN "Interface" ELSE data.kind

\* casual.NewHTTPResponse[T](&data, WithHttpStatusCode(statusCode), WithMeta(meta)...):
\* meta is <<>> when no WithMeta option was given.
NewHTTPResponse(T, data, statusCode, meta) ==
    LET injected == ElemKind(T, data) \in {"Slice", "Array"}
                    /\ (meta = <<>> \/ "total" \notin DOMAIN meta[1])
        keys == IF meta = <<>> THEN {} ELSE DOMAIN meta[1]
        metadata == IF injected
                    THEN <<[k \in keys \cup {"total"} |->
                              IF k \in keys THEN meta[1][k] ELSE data.len]>>
                    ELSE meta
    IN  [code |-> statusCode,
         body |-> [Status |-> statusCode, Data |-> data, Meta |-> metadata]]

\* defaultCasualResponder[T](value, opts...)
defaultCasualResponder(T, value, statusCode, meta) ==
    NewHTTPResponse(T, value, statusCode, meta)

\* The response of rcb (ctx.JSON or ctx.XML by the Accept header) or of
\* ctx.AbortWithStatus (kind "status", no body).
Written(code, format, kind, body) ==
    [code |-> code, format |-> format, kind |-> kind, body |-> body]

\* rcb(c.casualResponseErrorHandler(err)); ctx.Abort(); return -- with the
\* default error responder, which panics when NewHttpErrorResponse does.
RespondError(err) ==
    LET r == NewHttpErrorResponse(err)
    IN  IF r.panic
        THEN /\ kpc' = "panic"
             /\ UNCHANGED <<written, aborted>>
        ELSE /\ written' = <<Written(r.Status, casualR.accept, "error", <<r>>)>>
             /\ aborted' = TRUE
             /\ kpc' = "done"

\* A bind failure that writes the error envelope and goes on to the handler.
BindFailureFallsThrough(err) ==
    LET r == NewHttpErrorResponse(err)
    IN  /\ written' = <<Written(r.Status, casualR.accept, "error", <<r>>)>>
        /\ aborted' = FALSE
        /\ kpc' = "call"

\* if err != nil { rcb(c.casualResponseErrorHandler(err)); ctx.Abort(); return }
BindFailure(err) == RespondError(err)

\* A request reaches the adapter of a casual route.
CasualArrive ==
    /\ kpc = "idle"
    /\ kpc' = "bind"
    /\ UNCHANGED <<casualR, bindErr, called, respArr, written, aborted>>
    /\ UNCHANGED <<tvars, mvars, rvars, cvars, avars>>

\* err := ctx.ShouldBind(req) and the branch on err.
CasualShouldBind ==
    /\ kpc = "bind"
    /\ \E e \in {<<>>} \cup {<<x>> : x \in BindErrors} :
          /\ bindErr' = e
          /\ IF e # <<>>
             THEN BindFailure(e[1])
             ELSE /\ kpc' = "call"
                  /\ UNCHANGED <<written, aborted>>
    /\ UNCHANGED <<casualR, called, respArr>>
    /\ UNCHANGED <<tvars, mvars, rvars, cvars, avars>>

\* respArr := casualR.handler.rm.Func.Call(...)
CasualCall ==
    /\ kpc = "call"
    /\ \E res \in Results(casualR.arity) : respArr' = res
    /\ called' = TRUE
    /\ kpc' = "respond"
    /\ UNCHANGED <<casualR, bindErr, written, aborted>>
    /\ UNCHANGED <<tvars, mvars, rvars, cvars, avars>>

\* A method of the first result is called on a nil pointer it cannot take.
NilReceiverPanics(has) ==
    /\ casualR.arity = 2
    /\ has
    /\ respArr[1].isNil
    /\ ~respArr[1].nilSafe

\* statusCode: http.StatusOK, or what respArr[0].StatusCode() returns.  The
\* static type of a one-result handler's result is error, which has no
\* StatusCode method.
StatusCodeOf ==
    IF casualR.arity = 2 /\ respArr[1].statusCode # 0
    THEN respArr[1].statusCode
    ELSE 200

\* The map given to casual.WithMeta: a copy of what respArr[0].Meta()
\* returned, <<>> when the type has no such method.
MetaOf == respArr[1].meta

\* The rest of cb after the call: the status code, then the switch on
\* len(respArr).
CasualRespond ==
    /\ kpc = "respond"
    /\ IF NilReceiverPanics(respArr[1].statusCode # 0)
       THEN /\ kpc' = "panic"
            /\ UNCHANGED <<written, aborted>>
       ELSE IF casualR.arity = 1
       THEN IF respArr[1] = <<>>
            THEN /\ written' = <<Written(StatusCodeOf, "none", "status", <<>>)>>
                 /\ aborted' = TRUE
                 /\ kpc' = "done"
            ELSE RespondError(respArr[1][1])
       ELSE IF respArr[2] # <<>>
       THEN RespondError(respArr[2][1])
       ELSE IF NilReceiverPanics(respArr[1].meta # <<>>)
       THEN /\ kpc' = "panic"
            /\ UNCHANGED <<written, aborted>>
       ELSE LET r == defaultCasualResponder(ResponderType, respArr[1], StatusCodeOf, MetaOf)
            IN  /\ written' = <<Written(r.code, casualR.accept, "data", <<r.body>>)>>
                /\ aborted' = TRUE
                /\ kpc' = "done"
    /\ UNCHANGED <<casualR, bindErr, called, respArr>>
    /\ UNCHANGED <<tvars, mvars, rvars, cvars, avars>>

\* The routes of the adapter: a typed handler of one or two results, and a
\* request that asks for JSON or XML.
InitCasual ==
    /\ TrackerInit /\ NoRequests /\ NoRun /\ NoCompose /\ NoDiscover
    /\ casualR \in {[arity |-> a, accept |-> f] : a \in {1, 2}, f \in {"json", "xml"}}
    /\ kpc = "idle"
    /\ bindErr = <<>>
    /\ called = FALSE
    /\ respArr = <<>>
    /\ written = <<>>
    /\ aborted = FALSE

CasualNext ==
    \/ CasualArrive
    \/ CasualShouldBind
    \/ CasualCall
    \/ CasualRespond

SpecCasual == InitCasual /\ [][CasualNext]_vars


(***************************************************************************)
(* C15: when ctx.ShouldBind fails on a casual route, the typed handler is  *)
(* not invoked, the envelope the error responder made of the bind error is *)
(* written with its status, in the format the request asked for, and the   *)
(* chain is aborted: the adapter has returned and does nothing more.       *)
(***************************************************************************)
C15_BindFailureShortCircuits ==
    bindErr # <<>> =>
        /\ ~called
        /\ respArr = <<>>
        /\ kpc = "done"
        /\ aborted
        /\ ~NewHttpErrorResponse(bindErr[1]).panic
        /\ written = <<Written(NewHttpErrorResponse(bindErr[1]).Status, casualR.accept,
                               "error", <<NewHttpErrorResponse(bindErr[1])>>)>>

C15_Witness ==
    /\ bindErr # <<>>
    /\ bindErr[1].kind = "validation"
    /\ kpc = "done"
    /\ aborted
    /\ ~called
    /\ written # <<>>
    /\ written[1].code = 422


\* The error the adapter gave the error responder, <<>> when it gave none:
\* the bind error, or the error the typed handler returned once cb got to
\* the switch on len(respArr).
GivenError ==
    IF bindErr # <<>> THEN bindErr
    ELSE IF kpc \in {"done", "panic"}
            /\ ~NilReceiverPanics(respArr[1].statusCode # 0)
         THEN respArr[Len(respArr)]
         ELSE <<>>

\* The HttpError an error carries: itself, or the one it wraps.
CarriedHttpError(err) ==
    IF err.kind = "HttpError" THEN <<err>>
    ELSE IF err.inner # <<>> /\ err.inner[1].kind = "HttpError" THEN err.inner
    ELSE <<>>

\* The failed fields an error carries.
FailedFields(err) ==
    IF err.kind = "validation" THEN err.fields
    ELSE IF err.inner # <<>> /\ err.inner[1].kind = "validation" THEN err.inner[1].fields
    ELSE <<>>

(***************************************************************************)
(* C16: whatever error NewHttpErrorResponse is given (plain, HttpError,    *)
(* HttpError wrapped in another error, validation errors), it returns an   *)
(* envelope and does not panic; the status and message are those the       *)
(* HttpError declares when the error carries one, the status is 422 with   *)
(* one Details entry per failed field for validation errors, and 500       *)
(* otherwise.                                                              *)
(***************************************************************************)
C16_ErrorEnvelopeStatus ==
    GivenError # <<>> =>
        LET err == GivenError[1]
        IN  /\ kpc = "done"
            /\ written # <<>>
            /\ written[1].kind = "error"
            /\ IF CarriedHttpError(err) # <<>>
               THEN /\ written[1].code = CarriedHttpError(err)[1].httpCode
                    /\ written[1].body[1].Status = CarriedHttpError(err)[1].httpCode
                    /\ written[1].body[1].Message = GetMessage(CarriedHttpError(err)[1])
               ELSE IF FailedFields(err) # <<>>
               THEN /\ written[1].code = 422
                    /\ Len(written[1].body[1].Details) = Len(FailedFields(err))
                    /\ \A i \in 1..Len(FailedFields(err)) :
                          written[1].body[1].Details[i].Field = FailedFields(err)[i].Field
               ELSE /\ written[1].code = 500
                    /\ written[1].body[1].Details = <<>>


(***************************************************************************)
(* C17: when a typed handler of two results returns (nil, nil), the        *)
(* adapter aborts the chain and writes the status only: no body, hence no  *)
(* envelope, is written for the request.                                   *)
(***************************************************************************)
C17_NilNilStatusOnly ==
    (/\ kpc = "done"
     /\ casualR.arity = 2
     /\ called
     /\ respArr[1].isNil
     /\ respArr[2] = <<>>) =>
        /\ aborted
        /\ written # <<>>
        /\ written[1].kind = "status"
        /\ written[1].body = <<>>

\* The total of the metadata written, <<>> when there is none.
WrittenTotal ==
    IF written[1].body[1].Meta = <<>> THEN <<>>
    ELSE IF "total" \in DOMAIN written[1].body[1].Meta[1]
         THEN <<written[1].body[1].Meta[1]["total"]>>
         ELSE <<>>

(***************************************************************************)
(* C18: when a typed handler of two results returns (data, nil) and data   *)
(* is a slice or an array, the response the adapter writes with the        *)
(* default responder has meta.total = len(data) when the Meta of data      *)
(* supplies no "total" (or data has no Meta), and the supplied "total"     *)
(* when it supplies one.                                                   *)
(***************************************************************************)
C18_SliceTotalInjected ==
    (/\ kpc = "done"
     /\ casualR.arity = 2
     /\ called
     /\ respArr[2] = <<>>
     /\ respArr[1].kind \in {"Slice", "Array"}) =>
        /\ written # <<>>
        /\ written[1].kind = "data"
        /\ IF respArr[1].meta # <<>> /\ "total" \in DOMAIN respArr[1].meta[1]
           THEN WrittenTotal = <<respArr[1].meta[1]["total"]>>
           ELSE WrittenTotal = <<respArr[1].len>>


(***************************************************************************)
(* C19: Shutdown is idempotent.  No step of a second (or later) Shutdown   *)
(* call changes the tracker: the terminating flag, the in-flight count,    *)
(* the senders pending on doneCh and the signals consumed stay as the      *)
(* first call left them, whether the first call returned nil or timed out. *)
(***************************************************************************)
C19_ShutdownIdempotent ==
    [][(ncalls' >= 2 /\ spc' # spc) =>
          /\ ctxCancelled' = ctxCancelled
          /\ count' = count
          /\ doneCh' = doneCh
          /\ signals' = 0]_vars


(***************************************************************************)
(* C20: with paired calls (a task calls FinishTask once, and only after    *)
(* its own StartTask returned nil) the in-flight count is never negative   *)
(* and is the number of StartTask calls that returned nil less the number  *)
(* of FinishTask calls, in every interleaving with the other tasks and     *)
(* with Shutdown, and TaskCount returns that number.                       *)
(***************************************************************************)
C20_CountIsStartedLessFinished ==
    /\ count >= 0
    /\ count = Cardinality(Started) - Cardinality(Decremented)
    /\ TaskCount = Cardinality(Started) - Cardinality(Decremented)

C20_Witness ==
    /\ Cardinality(Started) = MaxTasks
    /\ Cardinality(Decremented) = 1
    /\ TaskCount = MaxTasks - 1
    /\ ctxCancelled
    /\ admittedLate


(***************************************************************************)
(* C21: a FinishTask call sends on doneCh only when the ctx is cancelled   *)
(* and its own count.Add(-1) gave zero: of the FinishTask calls that run   *)
(* together while the tracker drains, the one whose decrement gave zero is *)
(* the only one that sends.                                                *)
(***************************************************************************)
C21_OnlyZeroingCallSends ==
    \A t \in doneCh : t \in zeroed


\* The admitted requests inside the chain: StartTask returned nil and the
\* deferred FinishTask has not yet run.
InChain == {r \in Tasks : pc[r] = "running" /\ stage[r] \in {"mw", "chain", "fin"}}

(***************************************************************************)
(* C22: a request the middleware admitted gets one FinishTask, run only    *)
(* after the rest of the chain has ended for it, by return or by panic; so *)
(* the count is always the number of admitted requests inside the chain.   *)
(***************************************************************************)
C22_FinishOncePerAdmitted ==
    /\ count = Cardinality(InChain)
    /\ \A r \in Tasks :
          /\ (stage[r] = "done" /\ r \in Started) => r \in Decremented
          /\ r \in Decremented =>
                /\ stage[r] = "fin"
                /\ panicked[r] \/ index[r] >= Len(Chain)

C22_Witness ==
    \E r, q \in Tasks :
        /\ panicked[r]
        /\ r \in Decremented
        /\ q \in InChain
        /\ stage[q] = "chain"
        /\ count = 1


\* The root middlewares, each after its resolved nested ones.
ExpectedRootExpanded ==
    Concat([i \in 1..Len(rootMiddlewares) |->
              Concat([j \in 1..Len(rootMiddlewares[i].middlewares) |->
                        HandlersOf(Resolved(rootMiddlewares[i].middlewares[j].middlewares))
                            \o <<rootMiddlewares[i].middlewares[j].handler>>])])

\* The group's resolved middlewares, each after its resolved nested ones.
ExpectedGroupExpanded(route) ==
    IF GroupResolves(route)
    THEN LET own == Resolved(flatGroups[route.group].middlewares)
         IN  Concat([i \in 1..Len(own) |->
                       HandlersOf(Resolved(flatMiddlewares[own[i]].middlewares))
                           \o <<flatMiddlewares[own[i]].handler>>])
    ELSE <<>>

(***************************************************************************)
(* C23: in the chain of a registered route every root middleware and every *)
(* resolved middleware of the route's group comes right after its own      *)
(* resolved nested middlewares, in their declared order, as a middleware   *)
(* of the route's own list does.                                           *)
(***************************************************************************)
C23_RootAndGroupNestedExpanded ==
    \A k \in 1..Len(ginRoutes) :
        LET route == flatRoutes[k]
        IN  ginRoutes[k].handlers =
                ExpectedRootExpanded \o ExpectedGroupExpanded(route)
                    \o ExpectedRouteExpanded(route) \o <<route.handler>>


(***************************************************************************)
(* C24: the steps of a registered route's chain just before its handler    *)
(* are, for each resolved middleware M of the route's own list in order,   *)
(* the handlers of M's resolved nested middlewares in M's declared order   *)
(* and then M's own handler, nothing between them; the names are resolved  *)
(* in the merged table c.flatMiddlewares when the route is applied.        *)
(***************************************************************************)
C24_RouteNestedBeforeOwn ==
    \A k \in 1..Len(ginRoutes) :
        LET h == ginRoutes[k].handlers
            expanded == ExpectedRouteExpanded(flatRoutes[k])
        IN  /\ Len(h) > Len(expanded)
            /\ SubSeq(h, Len(h) - Len(expanded), Len(h) - 1) = expanded
            /\ h[Len(h)] = flatRoutes[k].handler

\* Middleware "c" of the first handler applies "b" and "a"; the "a" in the
\* chain is the one the second handler declared.
C24_Witness ==
    /\ cpc = "returned"
    /\ Len(handlers) = 2
    /\ handlers[2] = OtherHandler
    /\ \E k \in 1..Len(ginRoutes) :
          /\ flatRoutes[k].middlewares = <<"c">>
          /\ {"b", "c"} \subseteq DOMAIN flatMiddlewares
          /\ flatMiddlewares["c"].middlewares = <<"b", "a">>
          /\ Len(ginRoutes[k].handlers) >= 4
          /\ LET h == ginRoutes[k].handlers
             IN  SubSeq(h, Len(h) - 3, Len(h) - 1) =
                     <<HandlerFunc("middleware", "B"), HandlerFunc("middleware", "A2"),
                       HandlerFunc("middleware", "C")>>


\* The "route was registered" records, in order.
InfoRecords == SelectSeq(log, LAMBDA rec : rec.level = "info")

\* The elements of a sequence.
Elements(s) == {s[i] : i \in 1..Len(s)}

\* The names whose middleware was resolved and put into the chain of the
\* route: of its group's list, of its own list, and of the nested lists of
\* the resolved middlewares of its own list.
AppliedNames(route) ==
    Elements(Resolved(GroupListOf(route)))
        \cup Elements(Resolved(route.middlewares))
        \cup Elements(Resolved(NestedOf(route.middlewares)))

(***************************************************************************)
(* C25: each registered route has one "route was registered" record, with  *)
(* its method, its final path and, as middlewares, exactly the names that  *)
(* were resolved and whose handler is in the route's chain: no name that   *)
(* was skipped, and every name that was applied.                           *)
(***************************************************************************)
C25_InfoRecordAsStated ==
    /\ Len(InfoRecords) = Len(ginRoutes)
    /\ \A k \in 1..Len(ginRoutes) :
          /\ InfoRecords[k].msg = InfoRegistered
          /\ InfoRecords[k].name = flatRoutes[k].method
          /\ InfoRecords[k].path = ginRoutes[k].path
          /\ Elements(InfoRecords[k].middlewares) \cap Elements(Unresolved(flatRoutes[k].middlewares)) = {}
          /\ Elements(InfoRecords[k].middlewares) = AppliedNames(flatRoutes[k])


\* C25, as the code has it: each registered route has one "route was
\* registered" record, with its method, its final path and, as middlewares,
\* the names of the route's own middlewares list that were resolved, in
\* order, and no name that was skipped; the middlewares of the group and the
\* nested middlewares that are in the chain are not listed.
C25_InfoRecordPerRoute ==
    /\ Len(InfoRecords) = Len(ginRoutes)
    /\ \A k \in 1..Len(ginRoutes) :
          /\ InfoRecords[k].msg = InfoRegistered
          /\ InfoRecords[k].name = flatRoutes[k].method
          /\ InfoRecords[k].path = ginRoutes[k].path
          /\ InfoRecords[k].middlewares = Resolved(flatRoutes[k].middlewares)
          /\ Elements(InfoRecords[k].middlewares)
                 \cap Elements(Unresolved(flatRoutes[k].middlewares)) = {}

\* A route in a resolved group, with a skipped and a resolved middleware.
C25_Witness ==
    /\ cpc = "returned"
    /\ \E k \in 1..Len(ginRoutes) :
          /\ GroupResolves(flatRoutes[k])
          /\ Len(ExpectedGroup(flatRoutes[k])) > 0
          /\ flatRoutes[k].middlewares = <<"x", "a">>
          /\ InfoRecords[k].middlewares = <<"a">>
          /\ InfoRecords[k].path = ginRoutes[k].path
          /\ ginRoutes[k].path # flatRoutes[k].path



(***************************************************************************)
(* The engine from New to Run: New composes the routes, then Run serves    *)
(* requests of a casual route on the registered chains until it returns.   *)
(***************************************************************************)
\* A handler with a group, three middlewares and two routes.
EngineHandler ==
    [routes |-> <<Rt("ANY", <<"/", "p">>, "g", <<"x", "c">>, "h1"),
                  Rt("POST", <<"p">>, "", <<"a">>, "h2")>>,
     casualRoutes |-> <<>>,
     groups |-> <<Gr("g", <<"/", "a", "/">>, <<"b">>)>>,
     middlewares |-> <<Mw("a", <<>>, "A"), Mw("b", <<>>, "B"), Mw("c", <<"b", "a">>, "C")>>]

EngineHandlerLists ==
    {<<EngineHandler>>, <<EngineHandler, OtherHandler>>, <<OtherHandler, EngineHandler>>}

\* engine, _ := New(handlers, WithRootMiddlewares(...)); engine.Run(addr)
InitEngine ==
    /\ TrackerInit /\ NoRequests /\ RunInit /\ NoDiscover
    /\ handlers \in EngineHandlerLists
    /\ rootMiddlewares = <<[middlewares |-> <<Mw("r", <<"a">>, "R")>>]>>
    /\ flatRoutes = <<>>
    /\ flatGroups = <<>>
    /\ flatMiddlewares = <<>>
    /\ ginRoutes = <<>>
    /\ log = <<>>
    /\ cpc = "flatHandlers"
    /\ ci = 1
    /\ casualR = [arity |-> 2, accept |-> "json"]
    /\ kpc = "idle"
    /\ bindErr = <<>>
    /\ called = FALSE
    /\ respArr = <<>>
    /\ written = <<>>
    /\ aborted = FALSE

\* Run is called on the engine New returned.
EngineRun ==
    /\ cpc = "returned"
    /\ \/ RunStart
       \/ ListenFail
       \/ ListenClosed
       \/ Signal
       \/ RunRecvSignal
       \/ RunSrvShutdownCall
       \/ RunDeadlineElapse
       \/ \E e \in {"nil", "lnerr", "ctxerr"} : RunSrvShutdownReturn(e)
       \/ RunTrackerShutdownCall
       \/ RunTrackerShutdownReturn
       \/ RunRecvErrChan
       \/ ShutdownLoad

\* A request is served while the listener serves.
EngineServe ==
    /\ lpc = "serving"
    /\ \/ CasualArrive
       \/ CasualShouldBind
       \/ CasualCall
       \/ CasualRespond

EngineNext ==
    \/ FlatHandlersStep
    \/ ApplyHandlersStep
    \/ NewReturn
    \/ EngineRun
    \/ EngineServe

SpecEngine == InitEngine /\ [][EngineNext]_vars


\* The routes of the handlers given to New, in the order of the handlers:
\* of each handler its routes, then its casual routes.
GivenRoutes ==
    Concat([i \in 1..Len(handlers) |->
              handlers[i].routes
                  \o [j \in 1..Len(handlers[i].casualRoutes) |->
                         FlatCasualRoute(handlers[i].casualRoutes[j])]])

(***************************************************************************)
(* C26: New is a single pass.  When it has returned, the routes handed to  *)
(* gin are the Routes and CasualRoutes of the handlers, each once, in the  *)
(* order the handlers were given; while routes are applied the merged      *)
(* tables do not change; and after New returned neither Run nor the        *)
(* serving of a request changes flatGroups, flatMiddlewares, flatRoutes or *)
(* the registered chains.                                                  *)
(***************************************************************************)
C26_SinglePassThenReadOnly ==
    /\ [](cpc = "returned" =>
            /\ flatRoutes = GivenRoutes
            /\ Len(ginRoutes) = Len(GivenRoutes)
            /\ \A k \in 1..Len(ginRoutes) :
                  /\ ginRoutes[k].method = GivenRoutes[k].method
                  /\ ginRoutes[k].handlers[Len(ginRoutes[k].handlers)] = GivenRoutes[k].handler)
    /\ [][cpc = "applyHandlers" =>
              UNCHANGED <<flatGroups, flatMiddlewares, flatRoutes>>]_vars
    /\ [][cpc = "returned" =>
              UNCHANGED <<flatGroups, flatMiddlewares, flatRoutes, ginRoutes>>]_vars

\* New registered the routes of two handlers, a request was answered and
\* Run has returned.
C26_Witness ==
    /\ cpc = "returned"
    /\ Len(handlers) = 2
    /\ Len(ginRoutes) = 3
    /\ kpc = "done"
    /\ rpc = "done"
    /\ runResult = "nil"


\* The Route and Middleware fields that no method of an accepted signature
\* bears the name of: a Route field takes a gin or a casual handler, a
\* Middleware field a gin handler only.
Dropped ==
    {i \in 1..Len(hstruct.fields) :
        \/ hstruct.fields[i].type = "Route" /\ hstruct.fields[i].method = "none"
        \/ hstruct.fields[i].type = "Middleware" /\ hstruct.fields[i].method # "gin"}

\* The Route and Middleware fields that are not dropped.
Kept(type) ==
    {i \in 1..Len(hstruct.fields) : hstruct.fields[i].type = type /\ i \notin Dropped}

(***************************************************************************)
(* C27: a Route or Middleware field without a method of its name with an   *)
(* accepted signature is dropped without error, whatever its tags: when    *)
(* every field whose tag does not parse is such a field, AsHandler returns *)
(* a Handler and no error, the Handler has one route per Route field that  *)
(* has a method and one middleware per Middleware field that has one, and  *)
(* none made of a dropped field; the tag of a dropped field is not parsed. *)
(***************************************************************************)
C27_FieldWithoutMethodDropped ==
    (apc = "returned" /\ \A i \in MalformedRouteFields : i \in Dropped) =>
        /\ aret.err = <<>>
        /\ Len(aret.handler) = 1
        /\ Len(parsed) = Cardinality(Kept("Route"))
        /\ LET h == aret.handler[1]
           IN  /\ Len(h.routes) + Len(h.casualRoutes) = Cardinality(Kept("Route"))
               /\ Len(h.middlewares) = Cardinality(Kept("Middleware"))
               /\ \A i \in Dropped :
                     LET fn == Str(hstruct.fields[i].name)
                     IN  /\ \A j \in 1..Len(h.routes) :
                               h.routes[j].handler # HandlerFunc("route", fn)
                         /\ \A j \in 1..Len(h.casualRoutes) : h.casualRoutes[j].handler # fn
                         /\ \A j \in 1..Len(h.middlewares) :
                               h.middlewares[j].handler # HandlerFunc("middleware", fn)

\* A Route field with a tag that does not parse and a Middleware field are
\* dropped, and the Route field that has a method is kept.
C27_Witness ==
    /\ apc = "returned"
    /\ aret.err = <<>>
    /\ \E i \in Dropped \cap MalformedRouteFields : TRUE
    /\ \E i \in Dropped : hstruct.fields[i].type = "Middleware"
    /\ Len(aret.handler[1].routes) = 1
    /\ aret.handler[1].middlewares = <<>>


\* A handler that declares routes only, and one that declares the group and
\* the middlewares those routes name.
RoutesOnlyHandler ==
    [routes |-> <<Rt("GET", <<"/", "r">>, "g", <<"x", "c">>, "h3")>>,
     casualRoutes |-> <<CasualRt("PUT", <<"q">>, "", <<"a">>, "m3")>>,
     groups |-> <<>>,
     middlewares |-> <<>>]

DeclsOnlyHandler ==
    [routes |-> <<>>,
     casualRoutes |-> <<>>,
     groups |-> <<Gr("g", <<"/", "a", "/">>, <<"b">>)>>,
     middlewares |-> <<Mw("a", <<>>, "A"), Mw("b", <<>>, "B"), Mw("c", <<"b", "a">>, "C")>>]

\* New with two different handlers, in either order.
OrderHandlerLists ==
    LET pool == {EngineHandler, OtherHandler, RoutesOnlyHandler, DeclsOnlyHandler}
    IN  {<<h1, h2>> : h1 \in pool, h2 \in pool} \ {<<h, h>> : h \in pool}

InitOrder ==
    /\ TrackerInit /\ NoRequests /\ NoRun /\ NoDiscover /\ NoCasual
    /\ handlers \in OrderHandlerLists
    /\ rootMiddlewares \in RootDecls
    /\ flatRoutes = <<>>
    /\ flatGroups = <<>>
    /\ flatMiddlewares = <<>>
    /\ ginRoutes = <<>>
    /\ log = <<>>
    /\ cpc = "flatHandlers"
    /\ ci = 1

SpecOrder == InitOrder /\ [][ComposeNext]_vars

\* The orders the handlers given to New can be put in.
HandlerOrders ==
    LET n == Len(handlers)
    IN  {[i \in 1..n |-> handlers[p[i]]] :
            p \in {q \in [1..n -> 1..n] : \A i, j \in 1..n : q[i] = q[j] => i = j}}

RECURSIVE MergedGroups(_)
\* c.flatGroups after flatHandlers went through these handlers.
MergedGroups(hs) ==
    IF hs = <<>> THEN <<>>
    ELSE PutGroups(MergedGroups(SubSeq(hs, 1, Len(hs) - 1)), hs[Len(hs)].groups)

RECURSIVE MergedMiddlewares(_)
\* c.flatMiddlewares after flatHandlers went through these handlers.
MergedMiddlewares(hs) ==
    IF hs = <<>> THEN <<>>
    ELSE PutMiddlewares(MergedMiddlewares(SubSeq(hs, 1, Len(hs) - 1)), hs[Len(hs)].middlewares)

\* The places (handler, index) where a group, or a middleware, of this name
\* is declared.
GroupDeclarations(name) ==
    {<<i, j>> \in (1..Len(handlers)) \X (1..3) :
        j <= Len(handlers[i].groups) /\ handlers[i].groups[j].name = name}

MiddlewareDeclarations(name) ==
    {<<i, j>> \in (1..Len(handlers)) \X (1..3) :
        j <= Len(handlers[i].middlewares)
        /\ ToLower(handlers[i].middlewares[j].middleware) = name}

\* The last of a set of places.
LastOf(places) ==
    CHOOSE d \in places :
        \A e \in places : e[1] < d[1] \/ (e[1] = d[1] /\ e[2] <= d[2])

\* No group name and no middleware name is declared twice.
UniqueNames ==
    /\ \A name \in DOMAIN flatGroups : Cardinality(GroupDeclarations(name)) = 1
    /\ \A name \in DOMAIN flatMiddlewares : Cardinality(MiddlewareDeclarations(name)) = 1

(***************************************************************************)
(* C28: names are resolved in the tables merged from all the handlers.     *)
(* When no group or middleware name is declared twice, the handlers in any *)
(* other order give every route the path and the chain it has, also a      *)
(* route that names a group or middleware of a later handler; when a name  *)
(* is declared by several handlers, the tables hold the declaration of the *)
(* last of them, which every route gets.                                   *)
(***************************************************************************)
C28_HandlerOrderIndependent ==
    cpc = "returned" =>
        /\ UniqueNames =>
              \A hs \in HandlerOrders : \A k \in 1..Len(ginRoutes) :
                  LET a == ApplyRoute(flatRoutes[k], rootMiddlewares,
                                      MergedGroups(hs), MergedMiddlewares(hs))
                  IN  /\ a.path = ginRoutes[k].path
                      /\ a.handleStack = ginRoutes[k].handlers
        /\ \A name \in DOMAIN flatGroups :
              LET d == LastOf(GroupDeclarations(name))
              IN  flatGroups[name] = handlers[d[1]].groups[d[2]]
        /\ \A name \in DOMAIN flatMiddlewares :
              LET d == LastOf(MiddlewareDeclarations(name))
              IN  flatMiddlewares[name] = handlers[d[1]].middlewares[d[2]]
        /\ \A k \in 1..Len(ginRoutes) :
              LET a == ApplyRoute(flatRoutes[k], rootMiddlewares, flatGroups, flatMiddlewares)
              IN  /\ a.path = ginRoutes[k].path
                  /\ a.handleStack = ginRoutes[k].handlers

\* The route of the first handler is in the group, and has the middleware,
\* that only the second handler declares.
C28_Witness ==
    /\ cpc = "returned"
    /\ UniqueNames
    /\ handlers = <<RoutesOnlyHandler, DeclsOnlyHandler>>
    /\ rootMiddlewares = <<[middlewares |-> <<Mw("r", <<>>, "R")>>]>>
    /\ ginRoutes[1].path = <<"/", "a", "/", "r">>
    /\ ginRoutes[1].handlers =
           <<HandlerFunc("middleware", "R"), HandlerFunc("middleware", "B"),
             HandlerFunc("middleware", "B"), HandlerFunc("middleware", "A"),
             HandlerFunc("middleware", "C"), HandlerFunc("route", "h3")>>


(***************************************************************************)
(* Composition over middleware reference graphs: the middlewares "a" and   *)
(* "b" each list nothing, themselves, each other or both, and one route    *)
(* names them.  New runs flatHandlers and applyHandlers to the end without *)
(* waiting for anything.                                                   *)
(***************************************************************************)
ReferenceLists == {<<>>, <<"a">>, <<"b">>, <<"a", "b">>, <<"b", "a">>, <<"b", "b">>}

ReferenceGraphHandlers ==
    {[routes |-> <<Rt("GET", <<"/", "p">>, g, m, "h1")>>,
      casualRoutes |-> <<>>,
      groups |-> <<Gr("g", <<"/", "a">>, <<"a">>)>>,
      middlewares |-> <<Mw("a", na, "A"), Mw("b", nb, "B")>>] :
        g \in {"", "g"}, m \in {<<"a">>, <<"a", "b">>, <<"b", "a", "a">>},
        na \in ReferenceLists, nb \in ReferenceLists}

InitExpand ==
    /\ TrackerInit /\ NoRequests /\ NoRun /\ NoDiscover /\ NoCasual
    /\ handlers \in {<<h>> : h \in ReferenceGraphHandlers}
    /\ rootMiddlewares = <<[middlewares |-> <<Mw("b", <<"b", "a">>, "B")>>]>>
    /\ flatRoutes = <<>>
    /\ flatGroups = <<>>
    /\ flatMiddlewares = <<>>
    /\ ginRoutes = <<>>
    /\ log = <<>>
    /\ cpc = "flatHandlers"
    /\ ci = 1

SpecExpand == InitExpand /\ [][ComposeNext]_vars /\ WF_vars(ComposeNext)

\* The middlewares of the route's own list that are in the table, by object.
OwnMiddlewares(route) ==
    LET known == Resolved(route.middlewares)
    IN  [i \in 1..Len(known) |-> flatMiddlewares[known[i]]]

\* Some middleware lists itself, or two list each other.
ListsItselfOrEachOther ==
    \E m, n \in DOMAIN flatMiddlewares :
        /\ \E i \in 1..Len(flatMiddlewares[m].middlewares) : flatMiddlewares[m].middlewares[i] = n
        /\ \E i \in 1..Len(flatMiddlewares[n].middlewares) : flatMiddlewares[n].middlewares[i] = m

(***************************************************************************)
(* C29: for every reference graph of the middlewares, also one where a     *)
(* middleware lists itself or two list each other, New returns, and each   *)
(* route's chain is finite: what a middleware lists is applied one level   *)
(* deep, so a middleware of the route's own list with k nested names adds  *)
(* at most k + 1 steps to the chain.                                       *)
(***************************************************************************)
C29_CompositionTerminatesOneLevel ==
    /\ <>(cpc = "returned")
    /\ [](cpc = "returned" =>
            \A k \in 1..Len(flatRoutes) :
                LET own == OwnMiddlewares(flatRoutes[k])
                    before == Len(ExpectedRoot) + Len(Resolved(GroupListOf(flatRoutes[k])))
                IN  /\ k <= Len(ginRoutes)
                    /\ Len(ginRoutes[k].handlers)
                          <= before + Len(Concat([i \in 1..Len(own) |-> own[i].middlewares]))
                                + Len(own) + 1
                    /\ Len(ginRoutes[k].handlers)
                          = before + Len(Resolved(NestedOf(flatRoutes[k].middlewares)))
                                + Len(own) + 1)

\* "a" lists "b" and itself, "b" lists "a"; the route has "b", "a", "a":
\* its chain has the root and group steps, then A B; B A A; B A A; and h1.
C29_Witness ==
    /\ cpc = "returned"
    /\ ListsItselfOrEachOther
    /\ Len(ginRoutes) = 1
    /\ flatRoutes[1].middlewares = <<"b", "a", "a">>
    /\ flatRoutes[1].group = "g"
    /\ "a" \in DOMAIN flatMiddlewares /\ "b" \in DOMAIN flatMiddlewares
    /\ flatMiddlewares["a"].middlewares = <<"b", "a">>
    /\ flatMiddlewares["b"].middlewares = <<"a">>
    /\ ginRoutes[1].handlers =
           <<HandlerFunc("middleware", "B"), HandlerFunc("middleware", "A"),
             HandlerFunc("middleware", "A"), HandlerFunc("middleware", "B"),
             HandlerFunc("middleware", "B"), HandlerFunc("middleware", "A"),
             HandlerFunc("middleware", "A"),
             HandlerFunc("middleware", "B"), HandlerFunc("middleware", "A"),
             HandlerFunc("middleware", "A"), HandlerFunc("route", "h1")>>


\* Both shutdown steps of Run succeeded.
ShutdownStepsSucceeded ==
    /\ srvErr = "nil"
    /\ hasTracker => (spc = "returned" /\ how # "timeout")

=============================================================================
